---- MODULE Spec2Model ----
(***************************************************************************)
(* A model of elf32_string_replace (src/elf32_string_replace.go, the later *)
(* of the two revisions the file holds: lines 632-1274).  The program      *)
(* parses a 32-bit ELF file, computes the replaced string tables, appends  *)
(* them and a new program header table to the end of the file, patches     *)
(* every known string reference and writes the result.                     *)
(*                                                                         *)
(* The file is modelled byte by byte: f.Raw is a sequence of bytes, file   *)
(* offset o is index o+1.  Multi-byte fields are encoded and decoded in    *)
(* the file's byte order.  All uint32 values of the model stay below 2^31  *)
(* (TLC's integers are 32 bits wide); U32 reduces modulo 2^32 and TLC      *)
(* stops with an overflow error on any value it cannot hold.               *)
(***************************************************************************)
EXTENDS Integers, Sequences, FiniteSets, TLC

\* ------------------------------------------------------------------ bounds
\* The longest string table content the inputs enumerate for the first table.
MaxContentLen == 3

\* ------------------------------------------------- constants of the format
ELFHeaderSize == 52
SectionHeaderSize == 40
ProgramHeaderSize == 32
SymbolSize == 16
DynamicEntrySize == 8
VersionRecordSize == 16
ProgramHeaderOffsetField == 28
SectionHeaderOffsetField == 32
ProgramHeaderEntriesField == 44
SectionHeaderEntriesField == 48
SectionNamesTableField == 50
EndiannessField == 5
LoadableSegment == 1
ProgramHeaderSegment == 6
StringTableSection == 3
SymbolTableSection == 2
DynamicSymbolTableSection == 11
DynamicSection == 6
VersionRequirementSection == 1879048190
FileAlignment == 8
SegmentFlags == 2
DynNeeded == 1
DynStringTable == 5
DynSoName == 14
DynRPath == 15
DynStringSize == 10
LittleEndian == 1
BigEndian == 2
LoadBase == 4096
NUL == 0
CharA == 97
CharB == 98
GroupWhole == -1

\* --------------------------------------------------------------- sequences
RECURSIVE Flatten(_)
Flatten(ss) == IF ss = << >> THEN << >> ELSE Head(ss) \o Flatten(Tail(ss))

Zeros(n) == [i \in 1..n |-> 0]

Reverse(s) == [i \in 1..Len(s) |-> s[Len(s) + 1 - i]]

SeqsUpTo(S, n) == UNION {[1..k -> S] : k \in 0..n}

IsPrefix(p, s) == Len(p) <= Len(s) /\ SubSeq(s, 1, Len(p)) = p

\* ------------------------------------------------------ integers and bytes
\* x modulo 2^32, for any x TLC can hold.
U32(x) == (x % 65536) + 65536 * ((x \div 65536) % 65536)

\* binary.Write of an n-byte unsigned integer in byte order e: the bytes of
\* v from the least significant one, reversed for a big-endian file.
RECURSIVE EncodeLE(_, _)
EncodeLE(v, n) == IF n = 0 THEN << >> ELSE <<v % 256>> \o EncodeLE(v \div 256, n - 1)

EncodeUint(v, n, e) ==
  IF e = LittleEndian THEN EncodeLE(v, n) ELSE Reverse(EncodeLE(v, n))

\* binary.Read of an n-byte unsigned integer at file offset off of raw.
RECURSIVE DecodeLE(_, _, _)
DecodeLE(raw, off, n) ==
  IF n = 0 THEN 0 ELSE raw[off + 1] + 256 * DecodeLE(raw, off + 1, n - 1)

RECURSIVE DecodeBE(_, _, _, _)
DecodeBE(raw, off, n, acc) ==
  IF n = 0 THEN acc ELSE DecodeBE(raw, off + 1, n - 1, 256 * acc + raw[off + 1])

\* The n bytes of raw at file offset off.
BytesAt(raw, off, n) == SubSeq(raw, off + 1, off + n)

\* An n-byte unsigned field of raw at file offset off.
FieldAt(raw, off, n, e) ==
  IF e = LittleEndian THEN DecodeLE(raw, off, n) ELSE DecodeBE(raw, off, n, 0)

\* elf_reader.WriteAtOffset: the buffer grows with zero bytes when the write
\* ends past its end, then the bytes are copied in place.
WriteAtOffset(data, offset, bytes) ==
  LET grown == IF offset + Len(bytes) > Len(data)
               THEN data \o Zeros(offset + Len(bytes) - Len(data))
               ELSE data
  IN  SubSeq(grown, 1, offset) \o bytes
      \o SubSeq(grown, offset + Len(bytes) + 1, Len(grown))

\* ------------------------------------------------------------- the records
SectionFields ==
  <<"Name", "Type", "Flags", "VirtualAddress", "FileOffset", "Size",
    "LinkedIndex", "Info", "Align", "EntrySize">>

SegmentFields ==
  <<"Type", "FileOffset", "VirtualAddress", "PhysicalAddress", "FileSize",
    "MemorySize", "Flags", "Align">>

\* binary.Write of one record whose fields are all uint32, in field order.
RecordBytes(r, fields, e) ==
  Flatten([k \in 1..Len(fields) |-> EncodeUint(r[fields[k]], 4, e)])

\* binary.Write of a slice of such records.
SliceBytes(rs, fields, e) ==
  Flatten([k \in 1..Len(rs) |-> RecordBytes(rs[k], fields, e)])

\* binary.Read of an ELF32SectionHeader at file offset off.
SectionAt(raw, off, e) ==
  [Name           |-> FieldAt(raw, off, 4, e),
   Type           |-> FieldAt(raw, off + 4, 4, e),
   Flags          |-> FieldAt(raw, off + 8, 4, e),
   VirtualAddress |-> FieldAt(raw, off + 12, 4, e),
   FileOffset     |-> FieldAt(raw, off + 16, 4, e),
   Size           |-> FieldAt(raw, off + 20, 4, e),
   LinkedIndex    |-> FieldAt(raw, off + 24, 4, e),
   Info           |-> FieldAt(raw, off + 28, 4, e),
   Align          |-> FieldAt(raw, off + 32, 4, e),
   EntrySize      |-> FieldAt(raw, off + 36, 4, e)]

\* binary.Read of an ELF32ProgramHeader at file offset off.
SegmentAt(raw, off, e) ==
  [Type            |-> FieldAt(raw, off, 4, e),
   FileOffset      |-> FieldAt(raw, off + 4, 4, e),
   VirtualAddress  |-> FieldAt(raw, off + 8, 4, e),
   PhysicalAddress |-> FieldAt(raw, off + 12, 4, e),
   FileSize        |-> FieldAt(raw, off + 16, 4, e),
   MemorySize      |-> FieldAt(raw, off + 20, 4, e),
   Flags           |-> FieldAt(raw, off + 24, 4, e),
   Align           |-> FieldAt(raw, off + 28, 4, e)]

\* ---------------------------------------------------------------- parsing
\* elf_reader.ParseELF32File / (*ELF32File).ReparseData: the header, then
\* the section headers and the program headers the header points at.  The
\* parse fails when a table does not lie inside the file.
ParseData(raw) ==
  IF Len(raw) < ELFHeaderSize
  THEN [ok |-> FALSE]
  ELSE
    LET e     == raw[EndiannessField + 1]
        phoff == FieldAt(raw, ProgramHeaderOffsetField, 4, e)
        shoff == FieldAt(raw, SectionHeaderOffsetField, 4, e)
        phnum == FieldAt(raw, ProgramHeaderEntriesField, 2, e)
        shnum == FieldAt(raw, SectionHeaderEntriesField, 2, e)
        names == FieldAt(raw, SectionNamesTableField, 2, e)
    IN  IF \/ e \notin {LittleEndian, BigEndian}
           \/ shoff + shnum * SectionHeaderSize > Len(raw)
           \/ phoff + phnum * ProgramHeaderSize > Len(raw)
        THEN [ok |-> FALSE]
        ELSE [ok |-> TRUE,
              Endianness |-> e,
              Header |-> [ProgramHeaderOffset |-> phoff,
                          SectionHeaderOffset |-> shoff,
                          ProgramHeaderEntries |-> phnum,
                          SectionHeaderEntries |-> shnum,
                          SectionNamesTable |-> names],
              Sections |-> [i \in 1..shnum |->
                 SectionAt(raw, shoff + (i - 1) * SectionHeaderSize, e)],
              Segments |-> [i \in 1..phnum |->
                 SegmentAt(raw, phoff + (i - 1) * ProgramHeaderSize, e)]]

\* The ELF32File structure after a successful parse of raw.
FileOf(raw) ==
  LET p == ParseData(raw)
  IN  [Raw |-> raw, Endianness |-> p.Endianness, Header |-> p.Header,
       Sections |-> p.Sections, Segments |-> p.Segments]

\* Section indices are 0-based in the program; Sections is a 1-based sequence.
Section(f, i) == f.Sections[i + 1]
SectionIndices(f) == 0..(Len(f.Sections) - 1)
IsStringTable(f, i) == Section(f, i).Type = StringTableSection
IsSymbolTable(f, i) ==
  Section(f, i).Type \in {SymbolTableSection, DynamicSymbolTableSection}
IsDynamicSection(f, i) == Section(f, i).Type = DynamicSection
IsVersionRequirementSection(f, i) == Section(f, i).Type = VersionRequirementSection

\* (*ELF32File).GetSectionContent: the section's bytes, or an error when they
\* do not lie inside the file.
GetSectionContent(f, i) ==
  LET s == Section(f, i)
  IN  IF s.FileOffset + s.Size > Len(f.Raw)
      THEN [ok |-> FALSE, content |-> << >>]
      ELSE [ok |-> TRUE, content |-> BytesAt(f.Raw, s.FileOffset, s.Size)]

\* --------------------------------------------------- the regular expression
\* A regular expression is one of two kinds: a literal pattern (kind "lit",
\* the bytes pat), which matches its occurrences from left to right without
\* overlap, and the start-of-text anchor ^ (kind "bol"), which matches the
\* empty string once, at offset 0 of every string.  A replacement template
\* is a sequence of literal bytes and of GroupWhole, the template's $0.

\* regexp.Expand of the template for one match.
RECURSIVE Expand(_, _)
Expand(template, match) ==
  IF template = << >> THEN << >>
  ELSE (IF Head(template) = GroupWhole THEN match ELSE <<Head(template)>>)
       \o Expand(Tail(template), match)

\* ReplaceAllString for a literal pattern, scanning s from index i.
RECURSIVE ReplaceLiteral(_, _, _, _)
ReplaceLiteral(s, i, pat, template) ==
  IF i > Len(s) THEN << >>
  ELSE IF i + Len(pat) - 1 <= Len(s) /\ SubSeq(s, i, i + Len(pat) - 1) = pat
       THEN Expand(template, pat) \o ReplaceLiteral(s, i + Len(pat), pat, template)
       ELSE <<s[i]>> \o ReplaceLiteral(s, i + 1, pat, template)

\* regex.ReplaceAllString(s, template), for the expressions of three kinds:
\* "lit", the literal pat; "bol", the empty match at the start of the text
\* (^); "whole", the literal pat anchored at both ends (^pat$).
ReplaceAllString(re, s, template) ==
  IF re.kind = "lit" THEN ReplaceLiteral(s, 1, re.pat, template)
  ELSE IF re.kind = "whole" THEN (IF s = re.pat THEN Expand(template, s) ELSE s)
  ELSE Expand(template, << >>) \o s

\* ----------------------------------------------------------- doReplacements
\* strings.Split(content, "\x00"): the strings between the NUL bytes; a
\* content with n NUL bytes has n+1 strings, the last one possibly empty.
RECURSIVE SplitFrom(_, _, _)
SplitFrom(content, i, cur) ==
  IF i > Len(content) THEN <<cur>>
  ELSE IF content[i] = NUL THEN <<cur>> \o SplitFrom(content, i + 1, << >>)
       ELSE SplitFrom(content, i + 1, Append(cur, content[i]))

Split(content) == SplitFrom(content, 1, << >>)

\* A faulty doReplacements loop: the replaced string is not appended to
\* newContent, so that every replacement records the same newOffset.
RECURSIVE ReplaceLoopNoGrowth(_, _, _, _, _, _, _)
ReplaceLoopNoGrowth(strs, k, re, template, currentOldOffset, newContent, reps) ==
  IF k > Len(strs) THEN [newContent |-> newContent, replacements |-> reps]
  ELSE
    LET oldString == strs[k]
        newString == ReplaceAllString(re, oldString, template)
        next      == U32(currentOldOffset + Len(oldString) + 1)
    IN  IF oldString = newString
        THEN ReplaceLoopNoGrowth(strs, k + 1, re, template, next, newContent, reps)
        ELSE ReplaceLoopNoGrowth(strs, k + 1, re, template, next, newContent,
               Append(reps, [originalOffset |-> currentOldOffset,
                             newOffset |-> U32(Len(newContent))]))

\* A faulty doReplacements loop: the cursor into the old content advances by
\* the length of the string without its NUL byte.
RECURSIVE ReplaceLoopNoTerminator(_, _, _, _, _, _, _)
ReplaceLoopNoTerminator(strs, k, re, template, currentOldOffset, newContent, reps) ==
  IF k > Len(strs) THEN [newContent |-> newContent, replacements |-> reps]
  ELSE
    LET oldString == strs[k]
        newString == ReplaceAllString(re, oldString, template)
        next      == U32(currentOldOffset + Len(oldString))
    IN  IF oldString = newString
        THEN ReplaceLoopNoTerminator(strs, k + 1, re, template, next, newContent, reps)
        ELSE ReplaceLoopNoTerminator(strs, k + 1, re, template, next,
               newContent \o newString \o <<NUL>>,
               Append(reps, [originalOffset |-> currentOldOffset,
                             newOffset |-> U32(Len(newContent))]))

\* The loop of doReplacements over sectionStrings[k..], with the running
\* currentOldOffset, newContent and replacements.
RECURSIVE ReplaceLoop(_, _, _, _, _, _, _)
ReplaceLoop(strs, k, re, template, currentOldOffset, newContent, reps) ==
  IF k > Len(strs) THEN [newContent |-> newContent, replacements |-> reps]
  ELSE
    LET oldString == strs[k]
        newString == ReplaceAllString(re, oldString, template)
        next      == U32(currentOldOffset + Len(oldString) + 1)
    IN  IF oldString = newString
        THEN ReplaceLoop(strs, k + 1, re, template, next, newContent, reps)
        ELSE ReplaceLoop(strs, k + 1, re, template, next,
               newContent \o newString \o <<NUL>>,
               Append(reps, [originalOffset |-> currentOldOffset,
                             newOffset |-> U32(Len(newContent))]))

\* A faulty doReplacements: newContent starts empty, not as a copy of
\* oldContent.
doReplacementsFresh(t, re, template) ==
  LET r == ReplaceLoop(Split(t.oldContent), 1, re, template, 0, << >>, << >>)
  IN  IF r.replacements = << >> THEN t
      ELSE [t EXCEPT !.newContent = r.newContent, !.replacements = r.replacements]

\* A faulty doReplacements: the table is built again with every string
\* replaced, and the original strings are not kept.
doReplacementsRebuilt(t, re, template) ==
  LET r == ReplaceLoop(Split(t.oldContent), 1, re, template, 0, t.oldContent, << >>)
  IN  IF r.replacements = << >> THEN t
      ELSE [t EXCEPT
              !.newContent = Flatten([i \in 1..Len(Split(t.oldContent)) |->
                 ReplaceAllString(re, Split(t.oldContent)[i], template)
                   \o (IF i < Len(Split(t.oldContent)) THEN <<NUL>> ELSE << >>)]),
              !.replacements = r.replacements]

\* (*replacedStringTable).doReplacements: newContent and replacements stay
\* empty (nil) when no string changed.
doReplacements(t, re, template) ==
  LET r == ReplaceLoop(Split(t.oldContent), 1, re, template, 0, t.oldContent, << >>)
  IN  IF r.replacements = << >> THEN t
      ELSE [t EXCEPT !.newContent = r.newContent, !.replacements = r.replacements]

\* ------------------------------------------------------ processReplacements
\* The loop of processReplacements over the sections i.., with the tables
\* kept so far.
RECURSIVE ProcessLoop(_, _, _, _, _)
ProcessLoop(f, i, re, template, toReturn) ==
  IF i >= Len(f.Sections) THEN [err |-> FALSE, tables |-> toReturn]
  ELSE IF ~IsStringTable(f, i) THEN ProcessLoop(f, i + 1, re, template, toReturn)
  ELSE
    LET c == GetSectionContent(f, i)
        t == doReplacements(
               [sectionIndex |-> i,
                oldFileOffset |-> Section(f, i).FileOffset,
                oldVirtualAddress |-> Section(f, i).VirtualAddress,
                newFileOffset |-> 0,
                newVirtualAddress |-> 0,
                oldContent |-> c.content,
                newContent |-> << >>,
                replacements |-> << >>], re, template)
    IN  IF ~c.ok THEN [err |-> TRUE, tables |-> << >>]
        ELSE IF Len(t.replacements) = 0
             THEN ProcessLoop(f, i + 1, re, template, toReturn)
             ELSE ProcessLoop(f, i + 1, re, template, Append(toReturn, t))

processReplacements(f, re, template) == ProcessLoop(f, 0, re, template, << >>)

\* ------------------------------------------------------ relocateStringTables
\* A faulty fileOffsetToVirtualAddress: the section's file offset is not
\* subtracted.
fileOffsetToVirtualAddressNotRebased(f, sectionIndex, offset) ==
  IF sectionIndex > Len(f.Sections)
  THEN [err |-> TRUE, panic |-> FALSE, va |-> 0]
  ELSE IF sectionIndex = Len(f.Sections)
       THEN [err |-> FALSE, panic |-> TRUE, va |-> 0]
       ELSE [err |-> FALSE, panic |-> FALSE,
             va |-> U32(offset + Section(f, sectionIndex).VirtualAddress)]

\* fileOffsetToVirtualAddress.  An index equal to the number of sections
\* passes the range check and indexes past the slice (a run-time panic).
fileOffsetToVirtualAddress(f, sectionIndex, offset) ==
  IF sectionIndex > Len(f.Sections)
  THEN [err |-> TRUE, panic |-> FALSE, va |-> 0]
  ELSE IF sectionIndex = Len(f.Sections)
       THEN [err |-> FALSE, panic |-> TRUE, va |-> 0]
       ELSE [err |-> FALSE, panic |-> FALSE,
             va |-> U32(offset + (Section(f, sectionIndex).VirtualAddress
                                  - Section(f, sectionIndex).FileOffset))]

\* getSectionHeaderOffset.
getSectionHeaderOffset(f, sectionIndex) ==
  U32(f.Header.SectionHeaderOffset + sectionIndex * SectionHeaderSize)

\* The loop "for (len(f.Raw) % 8) != 0 { f.Raw = append(f.Raw, 0) }".
PaddingFor(n) == (FileAlignment - (n % FileAlignment)) % FileAlignment

PadToAlignment(raw) == raw \o Zeros(PaddingFor(Len(raw)))

\* A faulty loop over the tables: the cursors do not advance, so that every
\* table is pointed at the offset of the first one.
RECURSIVE AppendTablesInPlace(_, _, _, _, _, _)
AppendTablesInPlace(raw, sections, newTables, k, currentFileOffset, currentVirtualAddress) ==
  IF k > Len(newTables)
  THEN [raw |-> raw, sections |-> sections, newTables |-> newTables,
        currentFileOffset |-> U32(currentFileOffset + Len(newTables[1].newContent)),
        currentVirtualAddress |-> U32(currentVirtualAddress + Len(newTables[1].newContent))]
  ELSE
    LET t == [newTables[k] EXCEPT !.newFileOffset = currentFileOffset,
                                  !.newVirtualAddress = currentVirtualAddress]
    IN  AppendTablesInPlace(
          raw \o t.newContent,
          [sections EXCEPT ![t.sectionIndex + 1] =
             [@ EXCEPT !.VirtualAddress = t.newVirtualAddress,
                       !.FileOffset = t.newFileOffset,
                       !.Size = Len(t.newContent)]],
          [newTables EXCEPT ![k] = t],
          k + 1, currentFileOffset, currentVirtualAddress)

\* The loop of relocateStringTables over newTables[k..]: each table is
\* appended to the file and its section is pointed at the copy.
RECURSIVE AppendTables(_, _, _, _, _, _)
AppendTables(raw, sections, newTables, k, currentFileOffset, currentVirtualAddress) ==
  IF k > Len(newTables)
  THEN [raw |-> raw, sections |-> sections, newTables |-> newTables,
        currentFileOffset |-> currentFileOffset,
        currentVirtualAddress |-> currentVirtualAddress]
  ELSE
    LET t == [newTables[k] EXCEPT !.newFileOffset = currentFileOffset,
                                  !.newVirtualAddress = currentVirtualAddress]
        newContentLength == Len(t.newContent)
    IN  AppendTables(
          raw \o t.newContent,
          [sections EXCEPT ![t.sectionIndex + 1] =
             [@ EXCEPT !.VirtualAddress = t.newVirtualAddress,
                       !.FileOffset = t.newFileOffset,
                       !.Size = newContentLength]],
          [newTables EXCEPT ![k] = t],
          k + 1,
          U32(currentFileOffset + newContentLength),
          U32(currentVirtualAddress + newContentLength))

\* The second padding loop: the file is padded to the alignment again and
\* the cursors and the new segment's size grow by the padding.
PadCursors(raw, currentFileOffset, currentVirtualAddress, stringTableSegmentSize) ==
  [raw |-> raw \o Zeros(PaddingFor(Len(raw))),
   currentFileOffset |-> U32(currentFileOffset + PaddingFor(Len(raw))),
   currentVirtualAddress |-> U32(currentVirtualAddress + PaddingFor(Len(raw))),
   stringTableSegmentSize |-> U32(stringTableSegmentSize + PaddingFor(Len(raw)))]

\* The segment relocateStringTables creates for the appended string tables.
NewSegment(originalEndOffset, originalEndVA, stringTableSegmentSize) ==
  [Type |-> LoadableSegment,
   FileOffset |-> originalEndOffset,
   VirtualAddress |-> originalEndVA,
   PhysicalAddress |-> 0,
   FileSize |-> stringTableSegmentSize,
   MemorySize |-> stringTableSegmentSize,
   Flags |-> SegmentFlags,
   Align |-> FileAlignment]

\* A faulty step: the new segment is not grown by the size of the program
\* header table.
GrowLastSegmentSkipped(segments, programHeadersSize) == segments

\* The new segment, the last of the list, grows by the size of the program
\* header table.
GrowLastSegment(segments, programHeadersSize) ==
  [segments EXCEPT ![Len(segments)] =
     [@ EXCEPT !.FileSize = U32(@ + programHeadersSize),
               !.MemorySize = U32(@ + programHeadersSize)]]

\* The loop that finds the first ProgramHeaderSegment entry and points it at
\* the appended program header table; the list is unchanged without one.
UpdateProgramHeaderSegment(segments, currentFileOffset, currentVirtualAddress, size) ==
  IF \A i \in 1..Len(segments) : segments[i].Type # ProgramHeaderSegment
  THEN segments
  ELSE [segments EXCEPT
          ![CHOOSE i \in 1..Len(segments) :
              /\ segments[i].Type = ProgramHeaderSegment
              /\ \A j \in 1..(i - 1) : segments[j].Type # ProgramHeaderSegment] =
            [@ EXCEPT !.FileOffset = currentFileOffset,
                      !.VirtualAddress = currentVirtualAddress,
                      !.PhysicalAddress = 0,
                      !.FileSize = size,
                      !.MemorySize = size,
                      !.Align = FileAlignment]]

\* A faulty segment list: the ProgramHeaderSegment entry is left as it was
\* when the table is written.
RelocatedSegmentsStale(segments, originalEndOffset, originalEndVA, c) ==
  GrowLastSegment(
    Append(segments,
           NewSegment(originalEndOffset, originalEndVA, c.stringTableSegmentSize)),
    (Len(segments) + 1) * ProgramHeaderSize)

\* The segment list relocateStringTables builds: the new segment appended
\* and grown, the ProgramHeaderSegment entry updated.  c holds the cursors.
RelocatedSegments(segments, originalEndOffset, originalEndVA, c) ==
  UpdateProgramHeaderSegment(
    GrowLastSegment(
      Append(segments,
             NewSegment(originalEndOffset, originalEndVA, c.stringTableSegmentSize)),
      (Len(segments) + 1) * ProgramHeaderSize),
    c.currentFileOffset, c.currentVirtualAddress,
    (Len(segments) + 1) * ProgramHeaderSize)

\* A faulty header patch: the ELF header is left as it was.
PatchELFHeaderSkipped(raw, e, currentFileOffset, entryCount) == raw

\* The two writes into the ELF header: the program header table's file
\* offset and its number of entries.
PatchELFHeader(raw, e, currentFileOffset, entryCount) ==
  WriteAtOffset(
    WriteAtOffset(raw, ProgramHeaderOffsetField, EncodeUint(currentFileOffset, 4, e)),
    ProgramHeaderEntriesField, EncodeUint(entryCount % 65536, 2, e))

\* The program header table is written at the cursor, the end of the file,
\* and the ELF header is pointed at it.
WriteProgramHeaders(raw, e, segments, currentFileOffset) ==
  PatchELFHeader(
    WriteAtOffset(raw, currentFileOffset, SliceBytes(segments, SegmentFields, e)),
    e, currentFileOffset, Len(segments))

\* The file after a successful (*ELF32File).ReparseData, or f with the
\* given raw content when the parse fails.
Reparsed(f, raw) ==
  IF ParseData(raw).ok THEN FileOf(raw) ELSE [f EXCEPT !.Raw = raw]

\* The end of relocateStringTables: f.ReparseData() and the return.
FinishRelocation(f, newTables, raw) ==
  [f |-> Reparsed(f, raw), newTables |-> newTables, err |-> ~ParseData(raw).ok]

\* relocateStringTables from the new segment on; a is what the loop over
\* the tables left, c the cursors after the second padding.
RelocateSegments(f, originalEndOffset, originalEndVA, a, c) ==
  FinishRelocation(
    f, a.newTables,
    WriteProgramHeaders(
      c.raw, f.Endianness,
      RelocatedSegments(f.Segments, originalEndOffset, originalEndVA, c),
      c.currentFileOffset))

\* relocateStringTables after the loop over the tables: the section headers
\* are written back and the file is padded again.
RelocateHeaders(f, originalEndOffset, originalEndVA, a) ==
  RelocateSegments(
    f, originalEndOffset, originalEndVA, a,
    PadCursors(WriteAtOffset(a.raw, f.Header.SectionHeaderOffset,
                             SliceBytes(a.sections, SectionFields, f.Endianness)),
               a.currentFileOffset, a.currentVirtualAddress,
               U32(a.currentFileOffset - originalEndOffset)))

\* relocateStringTables once the end of the file is aligned (raw1) and its
\* virtual address va is known, or not.
RelocateFrom(f, newTables, raw1, va) ==
  IF va.err \/ va.panic
  THEN [f |-> [f EXCEPT !.Raw = raw1], newTables |-> newTables, err |-> TRUE]
  ELSE RelocateHeaders(f, Len(raw1), va.va,
         AppendTables(raw1, f.Sections, newTables, 1, Len(raw1), va.va))

\* The first padding loop of relocateStringTables.
AlignEnd(raw) == PadToAlignment(raw)

\* A faulty relocateStringTables: the end of the file is aligned before the
\* list of tables is found empty.
relocateStringTablesPadFirst(f, newTables) ==
  IF Len(newTables) = 0
  THEN [f |-> [f EXCEPT !.Raw = AlignEnd(f.Raw)], newTables |-> newTables,
        err |-> FALSE]
  ELSE RelocateFrom(f, newTables, AlignEnd(f.Raw),
         fileOffsetToVirtualAddress(f, newTables[1].sectionIndex,
                                    Len(AlignEnd(f.Raw))))

\* relocateStringTables(f, newTables): the file and the tables afterwards,
\* and whether an error was returned.
relocateStringTables(f, newTables) ==
  IF Len(newTables) = 0
  THEN [f |-> f, newTables |-> newTables, err |-> FALSE]
  ELSE RelocateFrom(f, newTables, AlignEnd(f.Raw),
         fileOffsetToVirtualAddress(f, newTables[1].sectionIndex,
                                    Len(AlignEnd(f.Raw))))

\* ---------------------------------------------------- the reference patcher
\* The patcher's operators take and return a record st: the file st.f, the
\* lines logged so far st.log, and st.err, set once an error is returned.
\* A logged line holds its kind, the file offset of the field (at), the value
\* read there and the section index of the string table.

\* writeAtELFOffset of a 4-byte value.
writeAtELFOffset(f, offset, value) ==
  [f EXCEPT !.Raw = WriteAtOffset(f.Raw, offset, EncodeUint(value, 4, f.Endianness))]

\* A faulty readELFUint32: the error of binary.Read is dropped, and a read of
\* the last 3 bytes of the file returns the zero value.
readELFUint32ReadUnchecked(f, offset) ==
  IF offset + 3 > Len(f.Raw) THEN [err |-> TRUE, value |-> 0]
  ELSE IF Len(f.Raw) - offset < 4 THEN [err |-> FALSE, value |-> 0]
  ELSE [err |-> FALSE, value |-> FieldAt(f.Raw, offset, 4, f.Endianness)]

\* readELFUint32: the range check, then binary.Read, which fails when fewer
\* than 4 bytes follow the offset.
readELFUint32(f, offset) ==
  IF offset + 3 > Len(f.Raw) \/ Len(f.Raw) - offset < 4
  THEN [err |-> TRUE, value |-> 0]
  ELSE [err |-> FALSE, value |-> FieldAt(f.Raw, offset, 4, f.Endianness)]

\* A faulty loop over the replacements: it stops at the first replacement
\* whose originalOffset is not past the value, so that a reference into a
\* replaced string is rewritten as well.
FirstReplacementNotPast(replacements, value) ==
  IF \A i \in 1..Len(replacements) : replacements[i].originalOffset > value THEN 0
  ELSE CHOOSE i \in 1..Len(replacements) :
         /\ replacements[i].originalOffset <= value
         /\ \A j \in 1..(i - 1) : replacements[j].originalOffset > value

\* The index of the first replacement whose originalOffset is value, or 0.
FirstReplacement(replacements, value) ==
  IF \A i \in 1..Len(replacements) : replacements[i].originalOffset # value THEN 0
  ELSE CHOOSE i \in 1..Len(replacements) :
         /\ replacements[i].originalOffset = value
         /\ \A j \in 1..(i - 1) : replacements[j].originalOffset # value

\* A faulty replaceSingleOffset: the loop over the replacements writes the
\* newOffset of the first replacement of the table, whichever one matched.
PatchValueFirstEntry(st, offset, value, replacedTable, i) ==
  [f   |-> IF i = 0 THEN st.f
           ELSE writeAtELFOffset(st.f, offset, replacedTable.replacements[1].newOffset),
   log |-> (IF value # 0 /\ replacedTable.oldContent[value] # NUL
            THEN Append(st.log, [kind |-> "WARNING", at |-> offset, value |-> value,
                                 section |-> replacedTable.sectionIndex])
            ELSE st.log)
           \o (IF i = 0 THEN << >>
               ELSE <<[kind |-> "Replaced", at |-> offset, value |-> value,
                        section |-> replacedTable.sectionIndex]>>),
   err |-> FALSE]

\* A faulty replaceSingleOffset: the check of the byte before the string is
\* left out, and no warning is logged.
PatchValueSilent(st, offset, value, replacedTable, i) ==
  [f   |-> IF i = 0 THEN st.f
           ELSE writeAtELFOffset(st.f, offset, replacedTable.replacements[i].newOffset),
   log |-> st.log
           \o (IF i = 0 THEN << >>
               ELSE <<[kind |-> "Replaced", at |-> offset, value |-> value,
                        section |-> replacedTable.sectionIndex]>>),
   err |-> FALSE]

\* replaceSingleOffset after the value was read and found in range: the
\* warning, then the loop over the replacements, which writes the newOffset
\* of the first one whose originalOffset is the value.
PatchValue(st, offset, value, replacedTable, i) ==
  [f   |-> IF i = 0 THEN st.f
           ELSE writeAtELFOffset(st.f, offset, replacedTable.replacements[i].newOffset),
   log |-> (IF value # 0 /\ replacedTable.oldContent[value] # NUL
            THEN Append(st.log, [kind |-> "WARNING", at |-> offset, value |-> value,
                                 section |-> replacedTable.sectionIndex])
            ELSE st.log)
           \o (IF i = 0 THEN << >>
               ELSE <<[kind |-> "Replaced", at |-> offset, value |-> value,
                        section |-> replacedTable.sectionIndex]>>),
   err |-> FALSE]

\* replaceSingleOffset with the result r of readELFUint32.
PatchRead(st, offset, r, replacedTable) ==
  IF r.err THEN [st EXCEPT !.err = TRUE]
  ELSE IF r.value > Len(replacedTable.oldContent) THEN [st EXCEPT !.err = TRUE]
  ELSE PatchValue(st, offset, r.value, replacedTable,
                  FirstReplacement(replacedTable.replacements, r.value))

\* replaceSingleOffset(f, offset, replacedTable).
replaceSingleOffset(st, offset, replacedTable) ==
  IF st.err THEN st
  ELSE PatchRead(st, offset, readELFUint32(st.f, offset), replacedTable)

\* The index and slice expressions of replaceSingleOffset and readELFUint32,
\* which panic at run time when they are out of range.  f.Raw[offset:] is
\* evaluated when the range check of readELFUint32 passed, and panics when
\* offset is greater than len(f.Raw).
RawSlicePanics(f, offset) ==
  ~(offset + 3 > Len(f.Raw)) /\ offset > Len(f.Raw)

\* A faulty bounds check of replaceSingleOffset: it lets through the value
\* one past len(oldContent).
InvalidValuePastEnd(value, replacedTable) ==
  value > Len(replacedTable.oldContent) + 1

\* The bounds check of replaceSingleOffset on the value it read.
InvalidValue(value, replacedTable) ==
  value > Len(replacedTable.oldContent)

\* replacedTable.oldContent[value-1] is evaluated when the value passed the
\* bounds check and is not 0, and panics when value-1 is not an index of
\* oldContent.
OldContentIndexPanics(value, replacedTable) ==
  /\ ~InvalidValue(value, replacedTable)
  /\ value # 0
  /\ (value - 1 < 0 \/ value - 1 >= Len(replacedTable.oldContent))

\* replaceSingleOffset(f, offset, replacedTable) panics.
replaceSingleOffsetPanics(f, offset, replacedTable) ==
  \/ RawSlicePanics(f, offset)
  \/ /\ ~readELFUint32(f, offset).err
     /\ OldContentIndexPanics(readELFUint32(f, offset).value, replacedTable)

\* getReplacementTable: the index in replacements of the first table for the
\* section, or 0 (nil).
getReplacementTable(replacements, sectionIndex) ==
  IF \A i \in 1..Len(replacements) : replacements[i].sectionIndex # sectionIndex
  THEN 0
  ELSE CHOOSE i \in 1..Len(replacements) :
         /\ replacements[i].sectionIndex = sectionIndex
         /\ \A j \in 1..(i - 1) : replacements[j].sectionIndex # sectionIndex

\* getReplacementTable for the section that section i links to.
LinkedTable(f, i, replacements) ==
  getReplacementTable(replacements, Section(f, i).LinkedIndex % 65536)

\* replaceSectionNames: the loop over the sections i...
RECURSIVE SectionNamesLoop(_, _, _)
SectionNamesLoop(st, i, table) ==
  IF st.err \/ i >= Len(st.f.Sections) THEN st
  ELSE SectionNamesLoop(
         replaceSingleOffset(st, getSectionHeaderOffset(st.f, i), table), i + 1, table)

replaceSectionNames(st, replacements) ==
  IF getReplacementTable(replacements, st.f.Header.SectionNamesTable) = 0 THEN st
  ELSE SectionNamesLoop(st, 0,
         replacements[getReplacementTable(replacements,
                                          st.f.Header.SectionNamesTable)])

\* replaceSymbolNames: the loop over one symbol table's records, then the
\* loop over the sections.
RECURSIVE SymbolsLoop(_, _, _, _)
SymbolsLoop(st, section, currentSymbolOffset, table) ==
  IF st.err \/ currentSymbolOffset >= section.Size THEN st
  ELSE SymbolsLoop(
         replaceSingleOffset(st, U32(section.FileOffset + currentSymbolOffset), table),
         section, U32(currentSymbolOffset + SymbolSize), table)

RECURSIVE SymbolTablesLoop(_, _, _)
SymbolTablesLoop(st, i, replacements) ==
  IF st.err \/ i >= Len(st.f.Sections) THEN st
  ELSE IF ~IsSymbolTable(st.f, i) THEN SymbolTablesLoop(st, i + 1, replacements)
  ELSE IF LinkedTable(st.f, i, replacements) = 0
       THEN SymbolTablesLoop(st, i + 1, replacements)
       ELSE SymbolTablesLoop(
              SymbolsLoop(st, Section(st.f, i), 0,
                          replacements[LinkedTable(st.f, i, replacements)]),
              i + 1, replacements)

replaceSymbolNames(st, replacements) ==
  IF st.err THEN st ELSE SymbolTablesLoop(st, 0, replacements)

\* replaceVersionDefinitionStrings: a stub.
replaceVersionDefinitionStrings(st, replacements) == st

\* The loop of replaceVersionRequirementStrings that stops at the first
\* version requirement section: its index, or -1 (section == nil).
FirstVersionRequirementSection(f) ==
  IF \A i \in SectionIndices(f) : ~IsVersionRequirementSection(f, i) THEN -1
  ELSE CHOOSE i \in SectionIndices(f) :
         /\ IsVersionRequirementSection(f, i)
         /\ \A j \in 0..(i - 1) : ~IsVersionRequirementSection(f, j)

\* The loop of replaceDynamicTableStrings that stops at the first dynamic
\* section: its index, or -1 (section == nil).
FirstDynamicSection(f) ==
  IF \A i \in SectionIndices(f) : ~IsDynamicSection(f, i) THEN -1
  ELSE CHOOSE i \in SectionIndices(f) :
         /\ IsDynamicSection(f, i)
         /\ \A j \in 0..(i - 1) : ~IsDynamicSection(f, j)

\* (*ELF32File).ParseVersionRequirementSection: the Verneed records, chained
\* by their Next field from the start of the section until a Next of 0, and
\* for each the AuxCount Vernaux records chained from its AuxOffset.
\* Verneed: Version 2, AuxCount 2, File 4, AuxOffset 4, Next 4 bytes.
\* Vernaux: Hash 4, Flags 2, Other 2, Name 4, Next 4 bytes.
RECURSIVE ParseAux(_, _, _, _)
ParseAux(f, offset, count, acc) ==
  IF count = 0 THEN [ok |-> TRUE, aux |-> acc]
  ELSE IF offset + VersionRecordSize > Len(f.Raw) THEN [ok |-> FALSE, aux |-> acc]
  ELSE LET next == FieldAt(f.Raw, offset + 12, 4, f.Endianness)
       IN  ParseAux(f, offset + next, count - 1,
                    Append(acc, [Name |-> FieldAt(f.Raw, offset + 8, 4, f.Endianness),
                                 Next |-> next]))

RECURSIVE ParseNeed(_, _, _, _, _)
ParseNeed(f, offset, end, need, aux) ==
  IF offset + VersionRecordSize > end THEN [ok |-> FALSE, need |-> need, aux |-> aux]
  ELSE
    LET n == [AuxCount  |-> FieldAt(f.Raw, offset + 2, 2, f.Endianness),
              File      |-> FieldAt(f.Raw, offset + 4, 4, f.Endianness),
              AuxOffset |-> FieldAt(f.Raw, offset + 8, 4, f.Endianness),
              Next      |-> FieldAt(f.Raw, offset + 12, 4, f.Endianness)]
        a == ParseAux(f, offset + n.AuxOffset, n.AuxCount, << >>)
    IN  IF ~a.ok THEN [ok |-> FALSE, need |-> need, aux |-> aux]
        ELSE IF n.Next = 0
             THEN [ok |-> TRUE, need |-> Append(need, n), aux |-> Append(aux, a.aux)]
             ELSE ParseNeed(f, offset + n.Next, end, Append(need, n), Append(aux, a.aux))

ParseVersionRequirementSection(f, sectionIndex) ==
  LET s == Section(f, sectionIndex)
  IN  IF s.FileOffset + s.Size > Len(f.Raw) THEN [ok |-> FALSE, need |-> << >>, aux |-> << >>]
      ELSE ParseNeed(f, s.FileOffset, s.FileOffset + s.Size, << >>, << >>)

\* A faulty loop over the Vernaux records: currentAuxOffset is not advanced
\* by x.Next, so that the first record is patched again and again.
RECURSIVE AuxLoopNoAdvance(_, _, _, _, _)
AuxLoopNoAdvance(st, auxes, k, currentAuxOffset, table) ==
  IF st.err \/ k > Len(auxes) THEN st
  ELSE AuxLoopNoAdvance(replaceSingleOffset(st, U32(currentAuxOffset + 8), table),
                        auxes, k + 1, currentAuxOffset, table)

\* replaceVersionRequirementStrings: the loop over one Verneed record's
\* Vernaux records, then the loop over the Verneed records.
RECURSIVE AuxLoop(_, _, _, _, _)
AuxLoop(st, auxes, k, currentAuxOffset, table) ==
  IF st.err \/ k > Len(auxes) THEN st
  ELSE AuxLoop(replaceSingleOffset(st, U32(currentAuxOffset + 8), table),
               auxes, k + 1, U32(currentAuxOffset + auxes[k].Next), table)

RECURSIVE NeedLoop(_, _, _, _, _, _)
NeedLoop(st, need, aux, i, currentNeedOffset, table) ==
  IF st.err \/ i > Len(need) THEN st
  ELSE NeedLoop(
         AuxLoop(replaceSingleOffset(st, U32(currentNeedOffset + 4), table),
                 aux[i], 1, U32(currentNeedOffset + need[i].AuxOffset), table),
         need, aux, i + 1, U32(currentNeedOffset + need[i].Next), table)

VersionRequirements(st, sectionIndex, table, parsed) ==
  IF ~parsed.ok THEN [st EXCEPT !.err = TRUE]
  ELSE NeedLoop(st, parsed.need, parsed.aux, 1,
                Section(st.f, sectionIndex).FileOffset, table)

VersionRequirementsIn(st, sectionIndex, replacements) ==
  IF sectionIndex = -1 THEN st
  ELSE IF LinkedTable(st.f, sectionIndex, replacements) = 0 THEN st
  ELSE VersionRequirements(st, sectionIndex,
         replacements[LinkedTable(st.f, sectionIndex, replacements)],
         ParseVersionRequirementSection(st.f, sectionIndex))

replaceVersionRequirementStrings(st, replacements) ==
  IF st.err THEN st
  ELSE VersionRequirementsIn(st, FirstVersionRequirementSection(st.f),
                             replacements)

\* (*ELF32File).GetDynamicTable: the section's {Tag int32, Value uint32}
\* entries.
GetDynamicTable(f, sectionIndex) ==
  LET s == Section(f, sectionIndex)
  IN  IF s.FileOffset + s.Size > Len(f.Raw) THEN [ok |-> FALSE, entries |-> << >>]
      ELSE [ok |-> TRUE,
            entries |-> [k \in 1..(s.Size \div DynamicEntrySize) |->
               [Tag   |-> FieldAt(f.Raw, s.FileOffset + (k - 1) * DynamicEntrySize,
                                  4, f.Endianness),
                Value |-> FieldAt(f.Raw, s.FileOffset + (k - 1) * DynamicEntrySize + 4,
                                  4, f.Endianness)]]]

\* A faulty switch: the entry with the string table's address (tag 5) is
\* left alone, as in the earlier revision of the program.
ReplaceDynamicEntryStringsOnly(st, tag, currentOffset, table) ==
  IF tag \in {DynNeeded, DynSoName, DynRPath}
  THEN replaceSingleOffset(st, U32(currentOffset + 4), table)
  ELSE st

\* A faulty switch: the error of replaceSingleOffset is assigned and never
\* looked at, as in the earlier revision of the program.
ReplaceDynamicEntryErrorDropped(st, tag, currentOffset, table) ==
  IF tag \in {DynNeeded, DynSoName, DynRPath}
  THEN [replaceSingleOffset(st, U32(currentOffset + 4), table) EXCEPT !.err = FALSE]
  ELSE IF tag = DynStringTable
       THEN [st EXCEPT !.f = writeAtELFOffset(st.f, U32(currentOffset + 4),
                                              table.newVirtualAddress)]
       ELSE st

\* A faulty switch: the value of the entry with the string table's size
\* (tag 10) is taken for a string reference as well.
ReplaceDynamicEntryWithSize(st, tag, currentOffset, table) ==
  IF tag \in {DynNeeded, DynSoName, DynRPath, DynStringSize}
  THEN replaceSingleOffset(st, U32(currentOffset + 4), table)
  ELSE IF tag = DynStringTable
       THEN [st EXCEPT !.f = writeAtELFOffset(st.f, U32(currentOffset + 4),
                                              table.newVirtualAddress)]
       ELSE st

\* The switch of replaceDynamicTableStrings on one entry's tag.
ReplaceDynamicEntry(st, tag, currentOffset, table) ==
  IF tag \in {DynNeeded, DynSoName, DynRPath}
  THEN replaceSingleOffset(st, U32(currentOffset + 4), table)
  ELSE IF tag = DynStringTable
       THEN [st EXCEPT !.f = writeAtELFOffset(st.f, U32(currentOffset + 4),
                                              table.newVirtualAddress)]
       ELSE st

RECURSIVE DynamicLoop(_, _, _, _, _)
DynamicLoop(st, entries, k, currentOffset, table) ==
  IF st.err \/ k > Len(entries) THEN st
  ELSE DynamicLoop(ReplaceDynamicEntry(st, entries[k].Tag, currentOffset, table),
                   entries, k + 1, U32(currentOffset + DynamicEntrySize), table)

DynamicEntries(st, sectionIndex, table, parsed) ==
  IF ~parsed.ok THEN [st EXCEPT !.err = TRUE]
  ELSE DynamicLoop(st, parsed.entries, 1,
                   Section(st.f, sectionIndex).FileOffset, table)

DynamicEntriesIn(st, sectionIndex, replacements) ==
  IF sectionIndex = -1 THEN st
  ELSE IF LinkedTable(st.f, sectionIndex, replacements) = 0 THEN st
  ELSE DynamicEntries(st, sectionIndex,
         replacements[LinkedTable(st.f, sectionIndex, replacements)],
         GetDynamicTable(st.f, sectionIndex))

replaceDynamicTableStrings(st, replacements) ==
  IF st.err THEN st
  ELSE DynamicEntriesIn(st, FirstDynamicSection(st.f), replacements)

\* The end of updateStringReferences: f.ReparseData() and the return.
FinishUpdate(st) ==
  IF st.err THEN st
  ELSE [f |-> Reparsed(st.f, st.f.Raw), log |-> st.log,
        err |-> ~ParseData(st.f.Raw).ok]

\* A faulty updateStringReferences: the dynamic table is patched first.
updateStringReferencesDynamicFirst(f, replacements) ==
  FinishUpdate(
    replaceVersionRequirementStrings(
      replaceVersionDefinitionStrings(
        replaceSymbolNames(
          replaceSectionNames(
            replaceDynamicTableStrings([f |-> f, log |-> << >>, err |-> FALSE],
                                       replacements),
            replacements),
          replacements),
        replacements),
      replacements))

\* updateStringReferences: the record kinds in order, each one skipped once
\* an error was returned, then the re-parse of the file.
updateStringReferences(f, replacements) ==
  FinishUpdate(
    replaceDynamicTableStrings(
      replaceVersionRequirementStrings(
        replaceVersionDefinitionStrings(
          replaceSymbolNames(
            replaceSectionNames([f |-> f, log |-> << >>, err |-> FALSE],
                                replacements),
            replacements),
          replacements),
        replacements),
      replacements))

\* --------------------------------------------------------------- the inputs
\* An input file has six sections: the null section, the string table
\* .dynstr (contentA, loaded at LoadBase), the section name table .shstrtab
\* (not loaded: virtual address 0), a symbol table, a dynamic section and a
\* version requirement section, the three of them linked to .dynstr.  The
\* program header table follows the ELF header; the section contents follow
\* it, then the section headers.

\* The content of the section name table: "", "a", "a".
ContentB == <<NUL, CharA, NUL, CharA, NUL>>

\* The shapes of the rest of the file: whether the program header table has
\* a ProgramHeaderSegment entry, the byte order, the name offset of the
\* symbol table's section header, whether the dynamic entry with tag 5
\* holds the string table's address or something else, the size the section
\* header of .shstrtab states, whether the dynamic entry with tag 15 holds
\* an offset of the string table or one past its end, and whether section 3
\* is a second version requirement section in place of the symbol table (its
\* first 16 bytes, all zero, are then one Verneed record without Vernaux
\* records and with the file name 0).
Variants ==
  { [phdr |-> TRUE, endian |-> LittleEndian, refB |-> 1, strAddrOk |-> TRUE,
     namesSize |-> Len(ContentB), rpathOk |-> TRUE, twoVerneed |-> FALSE],
    [phdr |-> FALSE, endian |-> BigEndian, refB |-> 0, strAddrOk |-> FALSE,
     namesSize |-> Len(ContentB), rpathOk |-> TRUE, twoVerneed |-> FALSE],
    [phdr |-> TRUE, endian |-> BigEndian, refB |-> Len(ContentB), strAddrOk |-> TRUE,
     namesSize |-> Len(ContentB), rpathOk |-> TRUE, twoVerneed |-> FALSE],
    [phdr |-> TRUE, endian |-> LittleEndian, refB |-> Len(ContentB) + 1,
     strAddrOk |-> FALSE, namesSize |-> Len(ContentB), rpathOk |-> TRUE,
     twoVerneed |-> FALSE],
    [phdr |-> TRUE, endian |-> LittleEndian, refB |-> 1, strAddrOk |-> TRUE,
     namesSize |-> Len(ContentB), rpathOk |-> FALSE, twoVerneed |-> FALSE],
    [phdr |-> TRUE, endian |-> BigEndian, refB |-> 1, strAddrOk |-> TRUE,
     namesSize |-> Len(ContentB), rpathOk |-> TRUE, twoVerneed |-> TRUE] }

\* A file whose .shstrtab section header states a size that reaches past the
\* end of the file.
TruncatedVariant ==
  [phdr |-> TRUE, endian |-> LittleEndian, refB |-> 1, strAddrOk |-> TRUE,
   namesSize |-> LoadBase, rpathOk |-> TRUE, twoVerneed |-> FALSE]

BuildInput(contentA, refA1, refA2, v) ==
  LET e      == v.endian
      w(x)   == EncodeUint(x, 4, e)
      h(x)   == EncodeUint(x, 2, e)
      nseg   == IF v.phdr THEN 2 ELSE 1
      phoff  == ELFHeaderSize
      oA     == phoff + nseg * ProgramHeaderSize
      oB     == oA + Len(contentA)
      oSym   == oB + Len(ContentB)
      oDyn   == oSym + 2 * SymbolSize
      oVer   == oDyn + 6 * DynamicEntrySize
      shoff  == oVer + 5 * VersionRecordSize
      total  == shoff + 6 * SectionHeaderSize
      header == <<127, 69, 76, 70, 1, e, 1, 0, 0>> \o Zeros(7)
                \o h(2) \o h(3) \o w(1) \o w(LoadBase + oSym)
                \o w(phoff) \o w(shoff) \o w(0)
                \o h(ELFHeaderSize) \o h(ProgramHeaderSize) \o h(nseg)
                \o h(SectionHeaderSize) \o h(6) \o h(2)
      phdrSeg == [Type |-> ProgramHeaderSegment, FileOffset |-> phoff,
                  VirtualAddress |-> LoadBase + phoff,
                  PhysicalAddress |-> LoadBase + phoff,
                  FileSize |-> nseg * ProgramHeaderSize,
                  MemorySize |-> nseg * ProgramHeaderSize, Flags |-> 4, Align |-> 4]
      loadSeg == [Type |-> LoadableSegment, FileOffset |-> 0,
                  VirtualAddress |-> LoadBase, PhysicalAddress |-> LoadBase,
                  FileSize |-> total, MemorySize |-> total, Flags |-> 5,
                  Align |-> LoadBase]
      segs   == IF v.phdr THEN <<phdrSeg, loadSeg>> ELSE <<loadSeg>>
      symtab == w(0) \o w(0) \o w(0) \o <<0, 0>> \o h(0)
                \o w(refA1) \o w(LoadBase + oSym) \o w(4) \o <<18, 0>> \o h(3)
      dyn    == w(DynNeeded) \o w(refA2)
                \o w(DynSoName) \o w(refA1)
                \o w(DynRPath) \o w(IF v.rpathOk THEN 0 ELSE Len(contentA) + 1)
                \o w(DynStringTable) \o w(IF v.strAddrOk THEN LoadBase + oA ELSE 7)
                \o w(DynStringSize) \o w(refA1)
                \o w(0) \o w(0)
      ver    == h(1) \o h(2) \o w(refA1) \o w(16) \o w(48)
                \o w(11) \o h(0) \o h(2) \o w(refA2) \o w(16)
                \o w(12) \o h(0) \o h(3) \o w(0) \o w(0)
                \o h(1) \o h(1) \o w(0) \o w(16) \o w(0)
                \o w(13) \o h(0) \o h(4) \o w(refA1) \o w(0)
      sec(name, type, flags, off, size, link, info, align, entsize) ==
        [Name |-> name, Type |-> type, Flags |-> flags,
         VirtualAddress |-> IF flags = 0 THEN 0 ELSE LoadBase + off,
         FileOffset |-> off, Size |-> size, LinkedIndex |-> link, Info |-> info,
         Align |-> align, EntrySize |-> entsize]
      secs   == << sec(0, 0, 0, 0, 0, 0, 0, 0, 0),
                   sec(1, StringTableSection, 2, oA, Len(contentA), 0, 0, 1, 0),
                   sec(1, StringTableSection, 0, oB, v.namesSize, 0, 0, 1, 0),
                   sec(v.refB,
                       IF v.twoVerneed THEN VersionRequirementSection
                       ELSE DynamicSymbolTableSection, 2, oSym, 2 * SymbolSize,
                       1, 1, 4, SymbolSize),
                   sec(0, DynamicSection, 3, oDyn, 6 * DynamicEntrySize,
                       1, 0, 4, DynamicEntrySize),
                   sec(1, VersionRequirementSection, 2, oVer, 5 * VersionRecordSize,
                       1, 2, 4, 0) >>
  IN  header \o SliceBytes(segs, SegmentFields, e)
      \o contentA \o ContentB \o symtab \o dyn \o ver
      \o SliceBytes(secs, SectionFields, e)

\* The string table contents, regular expressions and templates of the runs.
Contents == SeqsUpTo({NUL, CharA}, MaxContentLen)

Regexes == { [kind |-> "lit", pat |-> <<CharA>>], [kind |-> "bol", pat |-> << >>] }

Templates == { <<CharB>>, <<GroupWhole>> }

\* The scenario of the specification: the table "libc.so.6", "libm.so.6",
\* the pattern libc\.so\.6 and the replacement libshim.so.1.
LibC == <<108, 105, 98, 99, 46, 115, 111, 46, 54>>
LibM == <<108, 105, 98, 109, 46, 115, 111, 46, 54>>
LibShim == <<108, 105, 98, 115, 104, 105, 109, 46, 115, 111, 46, 49>>
ScenarioContent == LibC \o <<NUL>> \o LibM \o <<NUL>>

\* The second reference an input holds beside refA1: the next offset, from 0
\* again past the end of the table.
OtherRef(contentA, refA1) == (refA1 + 1) % (Len(contentA) + 1)

\* ------------------------------------------------------------------- state
VARIABLES
  f,            \* the ELF32File of run: Raw, Endianness, Header, Sections, Segments
  regex,        \* the compiled -to_match expression
  replacement,  \* the -replace template
  replacements, \* run's list of replacedStringTable
  pc,           \* run's position: "process", "relocate", "update", "write", "exit"
  exitStatus,   \* run's return value, -1 while it runs
  outputFile,   \* the output file: whether it was written, and its content
  log,          \* the lines replaceSingleOffset logged
  done,         \* the pipeline steps that returned success, in order
  input,        \* the ELF32File as parsed from the input file
  relocated,    \* the ELF32File as relocateStringTables left it
  call,         \* the function under way and its arguments: run, or one
                \* function called on its own with arguments of its types
  result        \* what the function called on its own returned

vars == <<f, regex, replacement, replacements, pc, exitStatus, outputFile, log,
          done, input, relocated, call, result>>

\* The state after flag parsing, regexp.Compile, ReadFile and ParseELF32File
\* all succeeded.
Start(file, re, template) ==
  /\ f = file
  /\ regex = re
  /\ replacement = template
  /\ replacements = << >>
  /\ pc = "process"
  /\ exitStatus = -1
  /\ outputFile = [written |-> FALSE, content |-> << >>]
  /\ log = << >>
  /\ done = << >>
  /\ input = file
  /\ relocated = file
  /\ call = [op |-> "run"]
  /\ result = [op |-> "run"]

Init ==
  \/ \E contentA \in Contents, v \in Variants, re \in Regexes, template \in Templates :
       \E refA1 \in 0..(Len(contentA) + 1) :
          Start(FileOf(BuildInput(contentA, refA1, OtherRef(contentA, refA1), v)),
                re, template)
  \/ \E v \in Variants \cup {TruncatedVariant} :
       Start(FileOf(BuildInput(ScenarioContent, 0, 10, v)),
             [kind |-> "lit", pat |-> LibC], LibShim)

\* Leaving run with status 1 after an error.
Fail == /\ pc' = "exit"
        /\ exitStatus' = 1

\* run: replacements, e := processReplacements(elf, regex, replacement).
ProcessReplacements ==
  /\ pc = "process"
  /\ LET r == processReplacements(f, regex, replacement)
     IN  IF r.err
         THEN /\ Fail
              /\ UNCHANGED <<replacements, done>>
         ELSE /\ replacements' = r.tables
              /\ done' = Append(done, "processReplacements")
              /\ pc' = "relocate"
              /\ UNCHANGED exitStatus
  /\ UNCHANGED <<f, regex, replacement, outputFile, log, input, relocated, call, result>>

\* run: e = relocateStringTables(elf, replacements).
RelocateStringTables ==
  /\ pc = "relocate"
  /\ LET r == relocateStringTables(f, replacements)
     IN  /\ f' = r.f
         /\ relocated' = r.f
         /\ replacements' = r.newTables
         /\ IF r.err
            THEN /\ Fail
                 /\ UNCHANGED done
            ELSE /\ done' = Append(done, "relocateStringTables")
                 /\ pc' = "update"
                 /\ UNCHANGED exitStatus
  /\ UNCHANGED <<regex, replacement, outputFile, log, input, call, result>>

\* A faulty run: the error of updateStringReferences is ignored.
UpdateStringReferencesUnchecked ==
  /\ pc = "update"
  /\ LET r == updateStringReferences(f, replacements)
     IN  /\ f' = r.f
         /\ log' = r.log
         /\ done' = IF r.err THEN done ELSE Append(done, "updateStringReferences")
         /\ pc' = "write"
         /\ UNCHANGED exitStatus
  /\ UNCHANGED <<regex, replacement, replacements, outputFile, input, relocated, call, result>>

\* run: e = updateStringReferences(elf, replacements).
UpdateStringReferences ==
  /\ pc = "update"
  /\ LET r == updateStringReferences(f, replacements)
     IN  /\ f' = r.f
         /\ log' = r.log
         /\ IF r.err
            THEN /\ Fail
                 /\ UNCHANGED done
            ELSE /\ done' = Append(done, "updateStringReferences")
                 /\ pc' = "write"
                 /\ UNCHANGED exitStatus
  /\ UNCHANGED <<regex, replacement, replacements, outputFile, input, relocated, call, result>>

\* run: e = ioutil.WriteFile(outputFile, elf.Raw, 0755), which may fail.
WriteFile ==
  /\ pc = "write"
  /\ \E ok \in BOOLEAN :
       IF ok
       THEN /\ outputFile' = [written |-> TRUE, content |-> f.Raw]
            /\ done' = Append(done, "WriteFile")
            /\ exitStatus' = 0
       ELSE /\ exitStatus' = 1
            /\ UNCHANGED <<outputFile, done>>
  /\ pc' = "exit"
  /\ UNCHANGED <<f, regex, replacement, replacements, log, input, relocated, call, result>>

Next ==
  \/ ProcessReplacements
  \/ RelocateStringTables
  \/ UpdateStringReferences
  \/ WriteFile

Spec == Init /\ [][Next]_vars

\* ------------------------------------------------- functions on their own
\* fileOffsetToVirtualAddress, relocateStringTables and replaceSingleOffset
\* called on their own, on a parsed input file, with arguments of their
\* types that run does not pass them: a section index up to one past the
\* number of sections, a list of tables whose first table names such a
\* section, and file offsets up to the end of the file and past it.

\* The tables of the call c: those processReplacements makes for the file;
\* for a call of relocateStringTables with a section index out of range,
\* the first table names that section.
TablesOfCall(file, re, template, c) ==
  IF c.op = "relocateStringTables" /\ c.sectionIndex >= Len(file.Sections)
  THEN [processReplacements(file, re, template).tables EXCEPT
          ![1].sectionIndex = c.sectionIndex]
  ELSE processReplacements(file, re, template).tables

\* The calls on a file of length n with sections 0 .. m - 1.
Calls(n, m) ==
  {[op |-> "fileOffsetToVirtualAddress", sectionIndex |-> i, offset |-> o] :
     i \in 0..(m + 1), o \in {n, n + PaddingFor(n)}}
  \cup {[op |-> "relocateStringTables", sectionIndex |-> i, offset |-> 0] :
          i \in {0, m, m + 1}}
  \cup {[op |-> "replaceSingleOffset", sectionIndex |-> 0, offset |-> o] :
          o \in {0} \cup ((n - 44)..(n - 40)) \cup ((n - 6)..(n + 1))}

\* The state before the call c on the file.
StartCall(file, re, template, c) ==
  /\ f = file
  /\ regex = re
  /\ replacement = template
  /\ replacements = TablesOfCall(file, re, template, c)
  /\ pc = "call"
  /\ exitStatus = -1
  /\ outputFile = [written |-> FALSE, content |-> << >>]
  /\ log = << >>
  /\ done = << >>
  /\ input = file
  /\ relocated = file
  /\ call = c
  /\ result = [op |-> "none"]

UnitInit ==
  \E contentA \in Contents, v \in Variants, re \in Regexes :
    \E c \in Calls(Len(BuildInput(contentA, 0, OtherRef(contentA, 0), v)), 6) :
      StartCall(FileOf(BuildInput(contentA, 0, OtherRef(contentA, 0), v)),
                re, <<CharB>>, c)

\* fileOffsetToVirtualAddress(f, call.sectionIndex, call.offset).
CallFileOffsetToVirtualAddress ==
  /\ pc = "call"
  /\ call.op = "fileOffsetToVirtualAddress"
  /\ result' = [op |-> call.op] @@ fileOffsetToVirtualAddress(f, call.sectionIndex, call.offset)
  /\ pc' = "return"
  /\ UNCHANGED <<f, regex, replacement, replacements, exitStatus, outputFile, log, done, input, relocated, call>>

\* relocateStringTables(f, replacements); the call panics when
\* fileOffsetToVirtualAddress does.
CallRelocateStringTables ==
  /\ pc = "call"
  /\ call.op = "relocateStringTables"
  /\ f' = relocateStringTables(f, replacements).f
  /\ relocated' = relocateStringTables(f, replacements).f
  /\ replacements' = relocateStringTables(f, replacements).newTables
  /\ result' = [op |-> call.op,
                err |-> relocateStringTables(f, replacements).err,
                panic |-> fileOffsetToVirtualAddress(f, replacements[1].sectionIndex,
                                                     Len(AlignEnd(f.Raw))).panic]
  /\ pc' = "return"
  /\ UNCHANGED <<regex, replacement, exitStatus, outputFile, log, done, input, call>>

\* replaceSingleOffset(f, call.offset, &replacements[0]).
CallReplaceSingleOffset ==
  /\ pc = "call"
  /\ call.op = "replaceSingleOffset"
  /\ IF replaceSingleOffsetPanics(f, call.offset, replacements[1])
     THEN /\ result' = [op |-> call.op, err |-> FALSE, panic |-> TRUE]
          /\ UNCHANGED <<f, log>>
     ELSE /\ f' = replaceSingleOffset([f |-> f, log |-> << >>, err |-> FALSE],
                                      call.offset, replacements[1]).f
          /\ log' = replaceSingleOffset([f |-> f, log |-> << >>, err |-> FALSE],
                                        call.offset, replacements[1]).log
          /\ result' = [op |-> call.op,
                        err |-> replaceSingleOffset([f |-> f, log |-> << >>, err |-> FALSE],
                                                    call.offset, replacements[1]).err,
                        panic |-> FALSE]
  /\ pc' = "return"
  /\ UNCHANGED <<regex, replacement, replacements, exitStatus, outputFile, done, input, relocated, call>>

UnitNext ==
  \/ CallFileOffsetToVirtualAddress
  \/ CallRelocateStringTables
  \/ CallReplaceSingleOffset

UnitSpec == UnitInit /\ [][UnitNext]_vars

\* ------------------------------------------------------- the program twice
\* The program run on an input file and then, with the same expression and
\* replacement, on the output file it wrote.  The expressions are those of
\* the single runs and the anchored ^a$; the replacement is "b", or
\* "libshim.so.1" in the scenario (with the replacement $0 no table has a
\* delta).
AnchoredRegex == [kind |-> "whole", pat |-> <<CharA>>]

TwiceInit ==
  \/ \E contentA \in Contents, v \in Variants :
       \E re \in Regexes \cup {AnchoredRegex}, refA1 \in 0..(Len(contentA) + 1) :
          Start(FileOf(BuildInput(contentA, refA1, OtherRef(contentA, refA1), v)),
                re, <<CharB>>)
  \/ \E v \in Variants :
       Start(FileOf(BuildInput(ScenarioContent, 0, 10, v)),
             [kind |-> "lit", pat |-> LibC], LibShim)

\* The second run: main starts again on the file the first run wrote.  The
\* tables of the first run and the length of its input are kept in result.
RunAgain ==
  /\ pc = "exit"
  /\ exitStatus = 0
  /\ call.op = "run"
  /\ ParseData(outputFile.content).ok
  /\ f' = FileOf(outputFile.content)
  /\ input' = FileOf(outputFile.content)
  /\ relocated' = FileOf(outputFile.content)
  /\ replacements' = << >>
  /\ pc' = "process"
  /\ exitStatus' = -1
  /\ outputFile' = [written |-> FALSE, content |-> << >>]
  /\ log' = << >>
  /\ done' = << >>
  /\ call' = [op |-> "again"]
  /\ result' = [op |-> "first", tables |-> replacements, length |-> Len(input.Raw)]
  /\ UNCHANGED <<regex, replacement>>

TwiceNext ==
  \/ ProcessReplacements
  \/ RelocateStringTables
  \/ UpdateStringReferences
  \/ WriteFile
  \/ RunAgain

TwiceSpec == TwiceInit /\ [][TwiceNext]_vars

\* -------------------------------------------------------------- properties
\* The NUL-terminated string at offset off of a table content: the bytes from
\* off up to the next NUL byte, or up to the end of the content.
RECURSIVE StringAt(_, _)
StringAt(content, off) ==
  IF off >= Len(content) THEN << >>
  ELSE IF content[off + 1] = NUL THEN << >>
  ELSE <<content[off + 1]>> \o StringAt(content, off + 1)

\* The substitution of the run applied to one string.
Substitute(s) == ReplaceAllString(regex, s, replacement)

\* The step of run has returned success.
Succeeded(step) == \E i \in 1..Len(done) : done[i] = step

\* The tables of replacements for one section.
HasTable(sectionIndex) ==
  \E i \in 1..Len(replacements) : replacements[i].sectionIndex = sectionIndex

TableFor(sectionIndex) ==
  replacements[CHOOSE i \in 1..Len(replacements) :
                 replacements[i].sectionIndex = sectionIndex]

\* The offset of the i-th string of a split content: the sum over j < i of
\* len(s_j) + 1.
RECURSIVE StartOf(_, _)
StartOf(strs, i) ==
  IF i = 1 THEN 0 ELSE StartOf(strs, i - 1) + Len(strs[i - 1]) + 1

\* The indices of the strings the substitution changes.
Changed(strs) == {i \in 1..Len(strs) : Substitute(strs[i]) # strs[i]}

\* The bytes added for the changed strings before the i-th: the sum over the
\* changed j < i of len(substitute(s_j)) + 1.
RECURSIVE AddedBefore(_, _)
AddedBefore(strs, i) ==
  IF i = 1 THEN 0
  ELSE AddedBefore(strs, i - 1)
       + (IF i - 1 \in Changed(strs) THEN Len(Substitute(strs[i - 1])) + 1 ELSE 0)

\* The number of changed strings up to the i-th.
Rank(strs, i) == Cardinality({j \in Changed(strs) : j <= i})

\* The file offsets of the fields a "Replaced" line was logged for.
Patched == {log[k].at : k \in {j \in 1..Len(log) : log[j].kind = "Replaced"}}

\* The section indices of the input's string tables.
StringTables == {i \in SectionIndices(input) : IsStringTable(input, i)}

\* The segment list has no ProgramHeaderSegment entry.
NoProgramHeaderSegment(segments) ==
  \A i \in 1..Len(segments) : segments[i].Type # ProgramHeaderSegment

\* C1: for every field replaceSingleOffset rewrote (a "Replaced" line was
\* logged for it), the NUL-terminated string at the field's value after the
\* patch, read in the table's newContent, is the substitution applied to the
\* NUL-terminated string at the value before the patch, read in the table's
\* oldContent.
C1_ReferenceIntegrity ==
  \A k \in 1..Len(log) :
    log[k].kind = "Replaced" =>
      /\ HasTable(log[k].section)
      /\ StringAt(TableFor(log[k].section).newContent,
                  FieldAt(f.Raw, log[k].at, 4, f.Endianness))
         = Substitute(StringAt(TableFor(log[k].section).oldContent, log[k].value))

\* C1 happens: updateStringReferences succeeded after it rewrote a section
\* header's name, a symbol's name, a Verneed file name, a Vernaux name and
\* the dynamic entries with the tags 1, 14 and 15.
C1_Witness ==
  /\ Succeeded("updateStringReferences")
  /\ \E i \in SectionIndices(input) : getSectionHeaderOffset(input, i) \in Patched
  /\ Section(input, 3).FileOffset + SymbolSize \in Patched
  /\ Section(input, 5).FileOffset + 4 \in Patched
  /\ Section(input, 5).FileOffset + VersionRecordSize + 8 \in Patched
  /\ Section(input, 4).FileOffset + 4 \in Patched
  /\ Section(input, 4).FileOffset + DynamicEntrySize + 4 \in Patched
  /\ Section(input, 4).FileOffset + 2 * DynamicEntrySize + 4 \in Patched

C3_OffsetMonotonicity ==
  \A i \in 1..Len(replacements) :
    /\ \A k \in 1..Len(replacements[i].replacements) :
         replacements[i].replacements[k].newOffset >= Len(replacements[i].oldContent)
    /\ \A k \in 1..(Len(replacements[i].replacements) - 1) :
         replacements[i].replacements[k].newOffset
           < replacements[i].replacements[k + 1].newOffset

\* C3 happens: a table has three replacements.
C3_Witness ==
  \E i \in 1..Len(replacements) : Len(replacements[i].replacements) >= 3

\* C4: when processReplacements returned an empty list, the file stays as it
\* was parsed through relocateStringTables and updateStringReferences: the
\* raw bytes are those of the input, with nothing appended, the segment list
\* is the input's, and the bytes written to the output are the input's.
C4_NoOp ==
  (pc # "process" /\ Len(replacements) = 0) =>
    /\ f.Raw = input.Raw
    /\ f.Segments = input.Segments
    /\ outputFile.written => outputFile.content = input.Raw

\* C4 happens: a run without a delta wrote its output, for an input whose
\* length is not a multiple of the alignment.
C4_Witness ==
  /\ Len(replacements) = 0
  /\ Succeeded("relocateStringTables")
  /\ Succeeded("updateStringReferences")
  /\ outputFile.written
  /\ Len(input.Raw) % FileAlignment # 0

\* C5: after relocateStringTables succeeded with a list that is not empty,
\* the 4 bytes at offset 28 of the file hold the offset of the appended
\* program header table (the table is the end of the file), the 2 bytes at
\* offset 44 hold the input's number of segments plus one, and the re-parsed
\* segment list is the table's content: the input's segments, the
\* ProgramHeaderSegment entry aside, and the new loadable segment last.
C5_HeaderPointsAtNewTable ==
  (Succeeded("relocateStringTables") /\ Len(replacements) > 0) =>
    /\ FieldAt(relocated.Raw, ProgramHeaderOffsetField, 4, relocated.Endianness)
       = Len(relocated.Raw) - (Len(input.Segments) + 1) * ProgramHeaderSize
    /\ FieldAt(relocated.Raw, ProgramHeaderEntriesField, 2, relocated.Endianness)
       = Len(input.Segments) + 1
    /\ ParseData(relocated.Raw).ok
    /\ relocated.Segments = ParseData(relocated.Raw).Segments
    /\ Len(relocated.Segments) = Len(input.Segments) + 1
    /\ \A i \in 1..Len(input.Segments) :
         \/ relocated.Segments[i] = input.Segments[i]
         \/ input.Segments[i].Type = ProgramHeaderSegment
    /\ \A i \in 1..Len(relocated.Segments) :
         relocated.Segments[i]
         = SegmentAt(relocated.Raw,
                     Len(relocated.Raw)
                       - (Len(input.Segments) + 1 - (i - 1)) * ProgramHeaderSize,
                     relocated.Endianness)
    /\ relocated.Segments[Len(relocated.Segments)].Type = LoadableSegment
    /\ relocated.Segments[Len(relocated.Segments)].FileOffset
       = Len(input.Raw) + PaddingFor(Len(input.Raw))

\* C5 happens: relocateStringTables succeeded with a list that is not empty
\* on an input of two segments.
C5_Witness ==
  /\ pc = "update"
  /\ Len(replacements) > 0
  /\ Len(input.Segments) = 2
  /\ f = relocated

\* C6: the output file is written only after processReplacements,
\* relocateStringTables and updateStringReferences returned success, in that
\* order; a run that ended without the three of them succeeding returned a
\* status that is not zero and wrote no output file.
C6_WrittenOnlyAfterPipeline ==
  /\ outputFile.written =>
       done = <<"processReplacements", "relocateStringTables",
                "updateStringReferences", "WriteFile">>
  /\ (pc = "exit" /\ Len(done) < 3) =>
       (exitStatus # 0 /\ ~outputFile.written)
  /\ exitStatus = 0 => outputFile.written
  /\ pc # "exit" => (exitStatus = -1 /\ ~outputFile.written)

\* C6 happens: updateStringReferences failed after the two steps before it
\* succeeded, and the run ended.
C6_Witness ==
  /\ pc = "exit"
  /\ done = <<"processReplacements", "relocateStringTables">>
  /\ exitStatus = 1
  /\ f.Raw # input.Raw

\* The table processReplacements hands to doReplacements for section i of
\* the input.
FreshTable(i) ==
  [sectionIndex |-> i,
   oldFileOffset |-> Section(input, i).FileOffset,
   oldVirtualAddress |-> Section(input, i).VirtualAddress,
   newFileOffset |-> 0,
   newVirtualAddress |-> 0,
   oldContent |-> GetSectionContent(input, i).content,
   newContent |-> << >>,
   replacements |-> << >>]

\* What C7 states of one table t whose oldContent splits into strs.
DeltaOf(t, strs) ==
  /\ Len(t.replacements) = Cardinality(Changed(strs))
  /\ \A i \in Changed(strs) :
       /\ t.replacements[Rank(strs, i)]
          = [originalOffset |-> StartOf(strs, i),
             newOffset |-> Len(t.oldContent) + AddedBefore(strs, i)]
       /\ SubSeq(t.newContent,
                 Len(t.oldContent) + AddedBefore(strs, i) + 1,
                 Len(t.oldContent) + AddedBefore(strs, i + 1))
          = Substitute(strs[i]) \o <<NUL>>
  /\ SubSeq(t.newContent, 1, Len(t.oldContent)) = t.oldContent
  /\ Len(t.newContent) = Len(t.oldContent) + AddedBefore(strs, Len(strs) + 1)

\* C7: once processReplacements succeeded, every string table of the input
\* whose strings the substitution leaves unchanged has no delta (doReplacements
\* leaves its replacements and newContent empty, and the list has no table
\* for it); every other one has one table, with one replacement per changed
\* string, in increasing order, each with the originalOffset and the
\* newOffset the sums give, and with newContent made of oldContent and of
\* each substituted string and a NUL in that order.  For "libc.so.6",
\* "libm.so.6" with libc.so.6 -> libshim.so.1 the replacements are {0, 20}.
C7_Deltas ==
  Succeeded("processReplacements") =>
    /\ \A i \in StringTables :
         IF Changed(Split(GetSectionContent(input, i).content)) = {}
         THEN /\ ~HasTable(i)
              /\ doReplacements(FreshTable(i), regex, replacement).replacements = << >>
              /\ doReplacements(FreshTable(i), regex, replacement).newContent = << >>
         ELSE /\ Cardinality({k \in 1..Len(replacements) :
                                replacements[k].sectionIndex = i}) = 1
              /\ TableFor(i).oldContent = GetSectionContent(input, i).content
              /\ DeltaOf(TableFor(i), Split(GetSectionContent(input, i).content))
    /\ \A k \in 1..Len(replacements) : replacements[k].sectionIndex \in StringTables
    /\ (GetSectionContent(input, 1).content = ScenarioContent
          /\ regex = [kind |-> "lit", pat |-> LibC] /\ replacement = LibShim) =>
         /\ HasTable(1)
         /\ TableFor(1).replacements = <<[originalOffset |-> 0, newOffset |-> 20]>>
         /\ TableFor(1).newContent = ScenarioContent \o LibShim \o <<NUL>>

\* C7 happens: processReplacements succeeded on an input with a table whose
\* first string is unchanged and whose second and third strings changed, and
\* with a table without a delta.
C7_Witness ==
  /\ Succeeded("processReplacements")
  /\ \E i \in StringTables :
       /\ HasTable(i)
       /\ Len(TableFor(i).replacements) >= 2
       /\ TableFor(i).replacements[1].originalOffset > 0
  /\ \E i \in StringTables : ~HasTable(i)

\* C8: after updateStringReferences succeeded, when the string table the
\* dynamic section links to has a delta, every dynamic entry with tag 5
\* holds the table's newVirtualAddress, which is the VirtualAddress of the
\* string table's section header.
C8_StringTableAddress ==
  (Succeeded("updateStringReferences")
     /\ FirstDynamicSection(f) # -1
     /\ LinkedTable(f, FirstDynamicSection(f), replacements) # 0) =>
    \A k \in 1..Len(GetDynamicTable(f, FirstDynamicSection(f)).entries) :
      GetDynamicTable(f, FirstDynamicSection(f)).entries[k].Tag
        = DynStringTable =>
        /\ GetDynamicTable(f, FirstDynamicSection(f)).entries[k].Value
           = replacements[LinkedTable(f, FirstDynamicSection(f),
                                      replacements)].newVirtualAddress
        /\ GetDynamicTable(f, FirstDynamicSection(f)).entries[k].Value
           = Section(f, Section(f, FirstDynamicSection(f)).LinkedIndex)
               .VirtualAddress

\* C8 happens: updateStringReferences succeeded with a delta for the dynamic
\* section's string table, on an input whose entry with tag 5 held a value
\* that was not the string table's address.
C8_Witness ==
  /\ Succeeded("updateStringReferences")
  /\ HasTable(Section(input, 4).LinkedIndex)
  /\ \E k \in 1..Len(GetDynamicTable(input, 4).entries) :
       /\ GetDynamicTable(input, 4).entries[k].Tag = DynStringTable
       /\ GetDynamicTable(input, 4).entries[k].Value
          # Section(input, Section(input, 4).LinkedIndex).VirtualAddress

\* C9: relocateStringTables does not return success for a list that is not
\* empty on a file whose segment list has no ProgramHeaderSegment entry.
C9_MissingProgramHeaderSegmentIsAnError ==
  (Len(replacements) > 0 /\ NoProgramHeaderSegment(input.Segments)) =>
    ~Succeeded("relocateStringTables")

\* C10: the segment relocateStringTables adds is loadable, its flags include
\* the read permission (the bit of value 4), its alignment is 8 and its file
\* offset is a multiple of 8.
C10_NewSegmentIsReadable ==
  (Succeeded("relocateStringTables") /\ Len(replacements) > 0) =>
    /\ relocated.Segments[Len(relocated.Segments)].Type = LoadableSegment
    /\ (relocated.Segments[Len(relocated.Segments)].Flags \div 4) % 2 = 1
    /\ relocated.Segments[Len(relocated.Segments)].Align = 8
    /\ relocated.Segments[Len(relocated.Segments)].FileOffset % 8 = 0

\* The end of the input file, rounded up to a multiple of 8.
AlignedEndOfInput == ((Len(input.Raw) + 7) \div 8) * 8

\* relocateStringTables succeeded with a list that is not empty.
Relocated == Succeeded("relocateStringTables") /\ Len(replacements) > 0

\* The segment relocateStringTables added, and the file offset of the
\* program header table it appended, as the re-parse reads them.
AddedSegment == relocated.Segments[Len(relocated.Segments)]

AppendedTableOffset ==
  Len(relocated.Raw) - (Len(input.Segments) + 1) * ProgramHeaderSize

\* The file range [off, off + size) lies inside the range of segment s.
InsideSegment(off, size, s) ==
  s.FileOffset <= off /\ off + size <= s.FileOffset + s.FileSize

\* C11: after relocateStringTables succeeded, the section header of every
\* delta holds its newVirtualAddress, its newFileOffset and the length of its
\* newContent, the file holds newContent at newFileOffset, and the tables
\* follow one another in list order from the aligned end of the input file.
C11_TablesRelocated ==
  Relocated =>
    \A k \in 1..Len(replacements) :
      /\ Section(relocated, replacements[k].sectionIndex).VirtualAddress
         = replacements[k].newVirtualAddress
      /\ Section(relocated, replacements[k].sectionIndex).FileOffset
         = replacements[k].newFileOffset
      /\ Section(relocated, replacements[k].sectionIndex).Size
         = Len(replacements[k].newContent)
      /\ SectionAt(relocated.Raw,
                   input.Header.SectionHeaderOffset
                     + replacements[k].sectionIndex * SectionHeaderSize,
                   relocated.Endianness)
         = Section(relocated, replacements[k].sectionIndex)
      /\ replacements[k].newFileOffset + Len(replacements[k].newContent)
         <= Len(relocated.Raw)
      /\ BytesAt(relocated.Raw, replacements[k].newFileOffset,
                 Len(replacements[k].newContent))
         = replacements[k].newContent
      /\ replacements[k].newFileOffset
         = IF k = 1 THEN AlignedEndOfInput
           ELSE replacements[k - 1].newFileOffset
                + Len(replacements[k - 1].newContent)

\* C11 happens: two tables were relocated, from an input whose length is not
\* a multiple of 8.
C11_Witness ==
  /\ Relocated
  /\ Len(replacements) = 2
  /\ Len(input.Raw) % 8 # 0

\* C12: after relocateStringTables succeeded, the added segment starts at
\* the aligned end of the input file and ends at the end of the file, so
\* that it holds every appended table and the appended program header
\* table; a ProgramHeaderSegment entry lies inside it and has the size of 32
\* bytes per segment; MemorySize equals FileSize for both.
C12_AddedSegmentCoversTail ==
  Relocated =>
    /\ AddedSegment.FileOffset = AlignedEndOfInput
    /\ AddedSegment.FileOffset + AddedSegment.FileSize = Len(relocated.Raw)
    /\ AddedSegment.MemorySize = AddedSegment.FileSize
    /\ \A k \in 1..Len(replacements) :
         InsideSegment(replacements[k].newFileOffset,
                       Len(replacements[k].newContent), AddedSegment)
    /\ InsideSegment(relocated.Header.ProgramHeaderOffset,
                     relocated.Header.ProgramHeaderEntries * ProgramHeaderSize,
                     AddedSegment)
    /\ \A i \in 1..Len(relocated.Segments) :
         relocated.Segments[i].Type = ProgramHeaderSegment =>
           /\ InsideSegment(relocated.Segments[i].FileOffset,
                            relocated.Segments[i].FileSize, AddedSegment)
           /\ relocated.Segments[i].FileSize = 32 * Len(relocated.Segments)
           /\ relocated.Segments[i].MemorySize = relocated.Segments[i].FileSize

\* C12 happens: tables were relocated in a file with a ProgramHeaderSegment
\* entry, and padding follows the tables.
C12_Witness ==
  /\ Relocated
  /\ ~NoProgramHeaderSegment(input.Segments)
  /\ (replacements[Len(replacements)].newFileOffset
        + Len(replacements[Len(replacements)].newContent)) % 8 # 0

\* C13: the program header table relocateStringTables appended is the
\* final segment list: read back from the end of the file, its last entry is
\* the added loadable segment with the size that reaches the end of the
\* file, and its ProgramHeaderSegment entry holds the appended table's own
\* file offset, virtual address and size, a physical address of 0 and the
\* alignment 8.
C13_AppendedTableIsFinal ==
  Relocated =>
    /\ \A i \in 1..(Len(input.Segments) + 1) :
         SegmentAt(relocated.Raw, AppendedTableOffset + (i - 1) * ProgramHeaderSize,
                   relocated.Endianness)
         = relocated.Segments[i]
    /\ SegmentAt(relocated.Raw, AppendedTableOffset + Len(input.Segments) * ProgramHeaderSize,
                 relocated.Endianness).Type = LoadableSegment
    /\ SegmentAt(relocated.Raw, AppendedTableOffset + Len(input.Segments) * ProgramHeaderSize,
                 relocated.Endianness).FileSize
       = Len(relocated.Raw) - AlignedEndOfInput
    /\ \A i \in 1..Len(input.Segments) :
         input.Segments[i].Type = ProgramHeaderSegment =>
           SegmentAt(relocated.Raw, AppendedTableOffset + (i - 1) * ProgramHeaderSize,
                     relocated.Endianness)
           = [input.Segments[i] EXCEPT
                !.FileOffset = AppendedTableOffset,
                !.VirtualAddress = AddedSegment.VirtualAddress
                                   + (AppendedTableOffset - AddedSegment.FileOffset),
                !.PhysicalAddress = 0,
                !.FileSize = (Len(input.Segments) + 1) * ProgramHeaderSize,
                !.MemorySize = (Len(input.Segments) + 1) * ProgramHeaderSize,
                !.Align = 8]

\* C13 happens: the table was appended for a big-endian input with a
\* ProgramHeaderSegment entry.
C13_Witness ==
  /\ Relocated
  /\ pc = "update"
  /\ input.Endianness = BigEndian
  /\ ~NoProgramHeaderSegment(input.Segments)

\* A call of op on its own has returned.
Returned(op) == pc = "return" /\ call.op = op

\* C14: fileOffsetToVirtualAddress returns offset + (VirtualAddress -
\* FileOffset) of the section, modulo 2^32, and leaves f alone, for a section
\* index in range; for every index from len(f.Sections) on, len(f.Sections)
\* itself included, it returns an error and does not panic.
C14_OutOfRangeIsAnError ==
  Returned("fileOffsetToVirtualAddress") =>
    /\ f = input
    /\ call.sectionIndex < Len(input.Sections) =>
         /\ ~result.err
         /\ ~result.panic
         /\ result.va = U32(call.offset
                             + Section(input, call.sectionIndex).VirtualAddress
                             - Section(input, call.sectionIndex).FileOffset)
    /\ call.sectionIndex >= Len(input.Sections) =>
         (result.err /\ ~result.panic)

\* C15: when relocateStringTables returns an error because
\* fileOffsetToVirtualAddress returned one for the first table's section, the
\* raw buffer is the one it was called with: nothing was appended to it.
C15_FailsBeforeAppending ==
  (Returned("relocateStringTables") /\ result.err /\ ~result.panic
     /\ call.sectionIndex > Len(input.Sections)) =>
    f.Raw = input.Raw

\* The field of a call of replaceSingleOffset has fewer than 4 bytes.
ShortField == Len(input.Raw) - call.offset < 4

\* The 4-byte value of the field of a call of replaceSingleOffset is greater
\* than the length of the table's old content.
ValueOutOfTable ==
  FieldAt(input.Raw, call.offset, 4, input.Endianness) > Len(replacements[1].oldContent)

\* C16: replaceSingleOffset returns an error, and has written nothing, when
\* fewer than 4 bytes are available at the field's offset and when the value
\* read is greater than len(oldContent); in every other case it returns
\* success.
C16_FailsOnShortOrInvalidField ==
  Returned("replaceSingleOffset") =>
    /\ result.err <=> (ShortField \/ ValueOutOfTable)
    /\ result.err => (f = input /\ log = << >>)

\* replaceSingleOffset has failed on a field of which the file holds only the
\* first 3 bytes.
C16_Witness ==
  /\ Returned("replaceSingleOffset")
  /\ result.err
  /\ Len(input.Raw) - call.offset = 3
  /\ f = input

\* The name fields of the symbols of the symbol table s: the file offset of
\* the field and the section of the linked string table.  UnmatchedSymbolNames
\* are those whose string table has a delta, and whose value is the
\* originalOffset of no replacement of that delta.
SymbolNamesOf(s) ==
  {[at |-> Section(input, s).FileOffset + k * SymbolSize,
    table |-> Section(input, s).LinkedIndex] :
     k \in 0..((Section(input, s).Size \div SymbolSize) - 1)}

UnmatchedSymbolNames ==
  {n \in UNION {SymbolNamesOf(s) :
                  s \in {i \in SectionIndices(input) : IsSymbolTable(input, i)}} :
     /\ HasTable(n.table)
     /\ \A i \in 1..Len(TableFor(n.table).replacements) :
          TableFor(n.table).replacements[i].originalOffset
            # FieldAt(input.Raw, n.at, 4, input.Endianness)}

\* A warning was logged for the field at the file offset.
WarnedAt(at) == \E j \in 1..Len(log) : log[j].kind = "WARNING" /\ log[j].at = at

\* The value of the field points into the middle of a string of the table's
\* old content: it is not 0 and the byte before it is not NUL.
InsideString(n) ==
  /\ FieldAt(input.Raw, n.at, 4, input.Endianness) # 0
  /\ TableFor(n.table).oldContent[FieldAt(input.Raw, n.at, 4, input.Endianness)] # NUL

\* C17, as stated: a symbol name field whose value is the originalOffset of
\* no replacement of the linked table is left unchanged, and no warning is
\* logged for it.
C17_UnmatchedSymbolNameIsSilent ==
  Succeeded("updateStringReferences") =>
    \A n \in UnmatchedSymbolNames :
      /\ FieldAt(f.Raw, n.at, 4, f.Endianness)
           = FieldAt(input.Raw, n.at, 4, input.Endianness)
      /\ ~WarnedAt(n.at)

\* C17, amended: a symbol name field whose value is the originalOffset of no
\* replacement of the linked table is left unchanged; a warning is logged for
\* it exactly when the value points into the middle of a string of the old
\* content, and none otherwise.
C17_UnmatchedSymbolNameIsUnchanged ==
  Succeeded("updateStringReferences") =>
    \A n \in UnmatchedSymbolNames :
      /\ FieldAt(f.Raw, n.at, 4, f.Endianness)
           = FieldAt(input.Raw, n.at, 4, input.Endianness)
      /\ WarnedAt(n.at) <=> InsideString(n)

\* The references were updated, and there were among them a symbol name that
\* matched no replacement and points into the middle of a string, and one
\* that matched no replacement and is the start of a string.
C17_Witness ==
  /\ Succeeded("updateStringReferences")
  /\ \E n \in UnmatchedSymbolNames : InsideString(n) /\ WarnedAt(n.at)
  /\ \E n \in UnmatchedSymbolNames : ~InsideString(n) /\ ~WarnedAt(n.at)

\* The records updateStringReferences visits in the file relocateStringTables
\* left, kind by kind: the file offset of the 4-byte field and the section of
\* the string table it is resolved against.
SectionNameFields ==
  {[at |-> getSectionHeaderOffset(relocated, i),
    table |-> relocated.Header.SectionNamesTable] : i \in SectionIndices(relocated)}

SymbolFieldsOf(s) ==
  {[at |-> Section(relocated, s).FileOffset + k * SymbolSize,
    table |-> Section(relocated, s).LinkedIndex] :
     k \in 0..((Section(relocated, s).Size \div SymbolSize) - 1)}

SymbolNameFields ==
  UNION {SymbolFieldsOf(s) :
           s \in {i \in SectionIndices(relocated) : IsSymbolTable(relocated, i)}}

\* The offset of the k-th record of a chain whose first record is at first,
\* each record giving in Next the distance to the one after it.
RECURSIVE OffsetOf(_, _, _)
OffsetOf(records, k, first) ==
  IF k = 1 THEN first ELSE OffsetOf(records, k - 1, first) + records[k - 1].Next

NeedFields(s, parsed) ==
  {[at |-> OffsetOf(parsed.need, i, Section(relocated, s).FileOffset) + 4,
    table |-> Section(relocated, s).LinkedIndex] : i \in 1..Len(parsed.need)}

AuxFieldsOf(s, parsed, i) ==
  {[at |-> OffsetOf(parsed.aux[i], k,
                    OffsetOf(parsed.need, i, Section(relocated, s).FileOffset)
                      + parsed.need[i].AuxOffset) + 8,
    table |-> Section(relocated, s).LinkedIndex] : k \in 1..Len(parsed.aux[i])}

VersionFieldsOf(s, parsed) ==
  IF ~parsed.ok THEN {}
  ELSE NeedFields(s, parsed)
         \cup UNION {AuxFieldsOf(s, parsed, i) : i \in 1..Len(parsed.need)}

VersionNameFields ==
  IF \A i \in SectionIndices(relocated) : ~IsVersionRequirementSection(relocated, i)
  THEN {}
  ELSE VersionFieldsOf(FirstVersionRequirementSection(relocated),
         ParseVersionRequirementSection(relocated,
                                        FirstVersionRequirementSection(relocated)))

DynamicFieldsOf(s) ==
  {[at |-> Section(relocated, s).FileOffset + k * DynamicEntrySize + 4,
    table |-> Section(relocated, s).LinkedIndex] :
     k \in {j \in 0..((Section(relocated, s).Size \div DynamicEntrySize) - 1) :
              FieldAt(relocated.Raw,
                      Section(relocated, s).FileOffset + j * DynamicEntrySize,
                      4, relocated.Endianness) \in {1, 14, 15}}}

DynamicStringFields ==
  IF \A i \in SectionIndices(relocated) : ~IsDynamicSection(relocated, i) THEN {}
  ELSE DynamicFieldsOf(FirstDynamicSection(relocated))

\* replaceSingleOffset fails on the field: its string table has a delta, and
\* the file holds fewer than 4 bytes of the field or a value greater than the
\* length of the table's old content.
FailsOn(n) ==
  /\ HasTable(n.table)
  /\ \/ Len(relocated.Raw) - n.at < 4
     \/ FieldAt(relocated.Raw, n.at, 4, relocated.Endianness)
          > Len(TableFor(n.table).oldContent)

\* updateStringReferences has been called and has returned.
UpdateReturned == Succeeded("relocateStringTables") /\ pc \in {"write", "exit"}

\* C18: when replaceSingleOffset fails on a record updateStringReferences
\* visits (a section header's name, a symbol's name, a Verneed or Vernaux
\* name, a dynamic entry with tag 1, 14 or 15), updateStringReferences returns
\* an error: run leaves with status 1 and writes no output file.
C18_FailureIsFatal ==
  (/\ UpdateReturned
   /\ \E n \in SectionNameFields \cup SymbolNameFields
                 \cup VersionNameFields \cup DynamicStringFields : FailsOn(n))
    => /\ ~Succeeded("updateStringReferences")
       /\ pc = "exit"
       /\ exitStatus = 1
       /\ ~outputFile.written

\* updateStringReferences has returned an error in a run whose only failing
\* record is an entry of the dynamic table.
C18_Witness ==
  /\ UpdateReturned
  /\ ~Succeeded("updateStringReferences")
  /\ exitStatus = 1
  /\ \E n \in DynamicStringFields : FailsOn(n)
  /\ \A n \in SectionNameFields \cup SymbolNameFields \cup VersionNameFields :
       ~FailsOn(n)

\* The kinds of records in the order of updateStringReferences: 1 section
\* header names, 2 symbol names, 3 version requirements, 4 dynamic entries
\* (the version definitions, between 2 and 3, are a stub without records).
Kinds == 1..4

KindFields(k) ==
  CASE k = 1 -> SectionNameFields
    [] k = 2 -> SymbolNameFields
    [] k = 3 -> VersionNameFields
    [] k = 4 -> DynamicStringFields

\* The file offset is one of a byte of the section s (-1: no section).
InSection(at, s) ==
  /\ s # -1
  /\ at >= Section(relocated, s).FileOffset
  /\ at < Section(relocated, s).FileOffset + Section(relocated, s).Size

\* The file offset is one of a byte of the records of the kind: of the
\* section header table, of a symbol table, of the first version requirement
\* section, of the first dynamic section.
InKind(at, k) ==
  CASE k = 1 -> /\ at >= relocated.Header.SectionHeaderOffset
                /\ at < relocated.Header.SectionHeaderOffset
                          + Len(relocated.Sections) * SectionHeaderSize
    [] k = 2 -> \E s \in SectionIndices(relocated) :
                  IsSymbolTable(relocated, s) /\ InSection(at, s)
    [] k = 3 -> InSection(at, FirstVersionRequirementSection(relocated))
    [] k = 4 -> InSection(at, FirstDynamicSection(relocated))

\* The kind of the record a log line is about, 0 when it is of no kind.
KindAt(at) ==
  IF \A k \in Kinds : ~InKind(at, k) THEN 0 ELSE CHOOSE k \in Kinds : InKind(at, k)

\* updateStringReferences wrote nothing in the size bytes from the file
\* offset start.
SameBytes(start, size) ==
  SubSeq(f.Raw, start + 1, start + size) = SubSeq(relocated.Raw, start + 1, start + size)

\* updateStringReferences wrote nothing in the section s and logged nothing
\* about it.
UntouchedSection(s) ==
  /\ SameBytes(Section(relocated, s).FileOffset, Section(relocated, s).Size)
  /\ \A j \in 1..Len(log) : ~InSection(log[j].at, s)

\* updateStringReferences wrote nothing in the records of the kind and
\* logged nothing about them.
Untouched(k) ==
  /\ \A j \in 1..Len(log) : KindAt(log[j].at) # k
  /\ CASE k = 1 -> SameBytes(relocated.Header.SectionHeaderOffset,
                             Len(relocated.Sections) * SectionHeaderSize)
       [] k = 2 -> \A s \in SectionIndices(relocated) :
                     IsSymbolTable(relocated, s) => UntouchedSection(s)
       [] k = 3 -> FirstVersionRequirementSection(relocated) # -1 =>
                     UntouchedSection(FirstVersionRequirementSection(relocated))
       [] k = 4 -> FirstDynamicSection(relocated) # -1 =>
                     UntouchedSection(FirstDynamicSection(relocated))

\* The section exists and is linked to a string table without a delta.
LinkedToNoDelta(s) == s # -1 /\ ~HasTable(Section(relocated, s).LinkedIndex)

\* C19: updateStringReferences visits the kinds of records in the order
\* section header names, symbol names, version requirements, dynamic
\* entries, and then re-parses the file; a kind is visited only when every
\* kind before it returned success; a kind whose string table (the section
\* name table, or the table its section is linked to) has no delta writes
\* nothing.
C19_KindsInOrder ==
  UpdateReturned =>
    /\ \A j \in 1..Len(log) : KindAt(log[j].at) # 0
    /\ \A j \in 1..(Len(log) - 1) : KindAt(log[j].at) <= KindAt(log[j + 1].at)
    /\ \A k \in Kinds :
         (\E n \in KindFields(k) : FailsOn(n)) =>
           \A later \in (k + 1)..4 : Untouched(later)
    /\ ~HasTable(relocated.Header.SectionNamesTable) => Untouched(1)
    /\ \A s \in SectionIndices(relocated) :
         (IsSymbolTable(relocated, s) /\ LinkedToNoDelta(s)) => UntouchedSection(s)
    /\ LinkedToNoDelta(FirstVersionRequirementSection(relocated)) => Untouched(3)
    /\ LinkedToNoDelta(FirstDynamicSection(relocated)) => Untouched(4)
    /\ Succeeded("updateStringReferences") => f = FileOf(f.Raw)

\* updateStringReferences has returned success after it logged a line about
\* each of the four kinds, and the section headers it re-parsed hold the new
\* names.
C19_Witness ==
  /\ UpdateReturned
  /\ Succeeded("updateStringReferences")
  /\ \A k \in Kinds : \E j \in 1..Len(log) : KindAt(log[j].at) = k
  /\ f.Sections # relocated.Sections

\* The NUL-terminated strings of the content start at 0 and after each NUL
\* byte but the last one of a content that ends with it.
IsStringStart(content, off) ==
  /\ off < Len(content)
  /\ off = 0 \/ content[off] = NUL
  /\ \E j \in (off + 1)..Len(content) : content[j] = NUL

\* C20: in every delta doReplacements made of a table that ends with a NUL
\* byte, the originalOffset values are pairwise distinct, and each one is
\* less than len(oldContent) and the offset at which a NUL-terminated string
\* of oldContent starts.
C20_OriginalOffsetsAreStringStarts ==
  \A t \in 1..Len(replacements) :
    (/\ Len(replacements[t].oldContent) > 0
     /\ replacements[t].oldContent[Len(replacements[t].oldContent)] = NUL) =>
      /\ \A i, j \in 1..Len(replacements[t].replacements) :
           i # j => replacements[t].replacements[i].originalOffset
                      # replacements[t].replacements[j].originalOffset
      /\ \A i \in 1..Len(replacements[t].replacements) :
           IsStringStart(replacements[t].oldContent,
                         replacements[t].replacements[i].originalOffset)

\* The value replaceSingleOffset leaves in a field that held value: the
\* newOffset of the replacement whose originalOffset it is, or the value.
Matches(t, value) ==
  \E i \in 1..Len(TableFor(t).replacements) :
    TableFor(t).replacements[i].originalOffset = value

NewValue(t, value) ==
  IF Matches(t, value)
  THEN TableFor(t).replacements[CHOOSE i \in 1..Len(TableFor(t).replacements) :
         TableFor(t).replacements[i].originalOffset = value].newOffset
  ELSE value

\* replaceSingleOffset was applied to the field, with success: the field
\* holds the new value, and the line "Replaced" was logged for it exactly
\* when a replacement matched.
AppliedTo(n) ==
  /\ FieldAt(f.Raw, n.at, 4, f.Endianness)
       = NewValue(n.table, FieldAt(relocated.Raw, n.at, 4, relocated.Endianness))
  /\ (\E j \in 1..Len(log) : log[j].at = n.at /\ log[j].kind = "Replaced")
       <=> Matches(n.table, FieldAt(relocated.Raw, n.at, 4, relocated.Endianness))

\* The file offset is one of the 4 bytes of one of the fields.
InFields(o, fields) == \E n \in fields : o >= n.at /\ o < n.at + 4

\* updateStringReferences changed, in the section s, bytes of the fields
\* only, and logged lines about the section for the fields only.
OnlyFieldsOf(s, fields) ==
  /\ \A o \in Section(relocated, s).FileOffset
                ..(Section(relocated, s).FileOffset + Section(relocated, s).Size - 1) :
       InFields(o, fields) \/ f.Raw[o + 1] = relocated.Raw[o + 1]
  /\ \A j \in 1..Len(log) :
       InSection(log[j].at, s) => \E n \in fields : n.at = log[j].at

\* updateStringReferences has called replaceVersionRequirementStrings, which
\* found a delta for the table of the first version requirement section and
\* no record to fail on.
VersionRequirementsPatched ==
  /\ UpdateReturned
  /\ FirstVersionRequirementSection(relocated) # -1
  /\ ~LinkedToNoDelta(FirstVersionRequirementSection(relocated))
  /\ ParseVersionRequirementSection(relocated,
       FirstVersionRequirementSection(relocated)).ok
  /\ \A n \in SectionNameFields \cup SymbolNameFields \cup VersionNameFields :
       ~FailsOn(n)

\* C21: when the string table linked to the first version requirement
\* section has a delta, replaceVersionRequirementStrings applies
\* replaceSingleOffset to the field at N_i + 4 of each Verneed record, N_0
\* the section's file offset and N_(i+1) = N_i + need[i].Next, and to the
\* field at A_(i,k) + 8 of each of its Vernaux records, A_(i,0) = N_i +
\* need[i].AuxOffset and A_(i,k+1) = A_(i,k) + aux[i][k].Next; to no other
\* byte of the section, and to no other version requirement section.
C21_VersionRequirementFields ==
  VersionRequirementsPatched =>
    /\ \A n \in VersionNameFields : AppliedTo(n)
    /\ OnlyFieldsOf(FirstVersionRequirementSection(relocated), VersionNameFields)
    /\ \A s \in SectionIndices(relocated) :
         (/\ IsVersionRequirementSection(relocated, s)
          /\ s # FirstVersionRequirementSection(relocated)) => UntouchedSection(s)

\* The version requirements were patched in a section of two Verneed records,
\* the first with two Vernaux records, of which a Verneed name and the name
\* of a second Vernaux record were rewritten.
C21_Witness ==
  /\ VersionRequirementsPatched
  /\ Cardinality(VersionNameFields) = 5
  /\ \E n \in VersionNameFields :
       /\ n.at = Section(relocated, FirstVersionRequirementSection(relocated)).FileOffset
                   + 2 * VersionRecordSize + 8
       /\ Matches(n.table, FieldAt(relocated.Raw, n.at, 4, relocated.Endianness))
       /\ FieldAt(f.Raw, n.at, 4, f.Endianness)
            # FieldAt(relocated.Raw, n.at, 4, relocated.Endianness)
  /\ \E n \in VersionNameFields :
       /\ n.at = Section(relocated, FirstVersionRequirementSection(relocated)).FileOffset
                   + 3 * VersionRecordSize + 4
       /\ FieldAt(f.Raw, n.at, 4, f.Endianness)
            # FieldAt(relocated.Raw, n.at, 4, relocated.Endianness)

\* The value of the field of a call of replaceSingleOffset.
FieldValue == FieldAt(input.Raw, call.offset, 4, input.Endianness)

\* The field of a call of replaceSingleOffset holds a reference into the
\* middle of a string of the old content: not 0, not past the end, and the
\* byte before it is not NUL.
ReferenceInsideString ==
  /\ ~ShortField
  /\ FieldValue # 0
  /\ FieldValue <= Len(replacements[1].oldContent)
  /\ replacements[1].oldContent[FieldValue] # NUL

\* C22: when the value replaceSingleOffset reads is not 0, is within bounds
\* and follows a byte of oldContent that is not NUL, replaceSingleOffset logs
\* the warning, returns success and leaves the field as it was; and no call
\* logs both a warning and a replacement.
C22_WarningExcludesWrite ==
  Returned("replaceSingleOffset") =>
    /\ ReferenceInsideString =>
         /\ ~result.err
         /\ Len(log) = 1
         /\ log[1].kind = "WARNING"
         /\ log[1].at = call.offset
         /\ f = input
    /\ ~(\E j, k \in 1..Len(log) : log[j].kind = "WARNING" /\ log[k].kind = "Replaced")
    /\ (\E j \in 1..Len(log) : log[j].kind = "WARNING") => f = input

\* replaceSingleOffset has returned from a field that refers to the second
\* byte of a string which has a replacement.
C22_Witness ==
  /\ Returned("replaceSingleOffset")
  /\ ReferenceInsideString
  /\ FieldValue = 1
  /\ replacements[1].replacements[1].originalOffset = 0
  /\ Len(log) = 1
  /\ f = input

\* a and b are equal modulo 2^32.
CongruentU32(a, b) ==
  /\ (a - b) % 65536 = 0
  /\ ((a - b) \div 65536) % 65536 = 0

\* VirtualAddress - FileOffset of the section of the first delta, in the
\* input file.
FirstMapping ==
  Section(input, replacements[1].sectionIndex).VirtualAddress
    - Section(input, replacements[1].sectionIndex).FileOffset

\* C23: after relocateStringTables succeeded, the virtual address minus the
\* file offset of every relocated table, and of the ProgramHeaderSegment
\* entry if there is one, is the VirtualAddress minus the FileOffset that the
\* section of the first delta had before the relocation, modulo 2^32.
C23_FirstMappingForAll ==
  Relocated =>
    /\ \A t \in 1..Len(replacements) :
         /\ CongruentU32(replacements[t].newVirtualAddress
                           - replacements[t].newFileOffset, FirstMapping)
         /\ CongruentU32(
              Section(relocated, replacements[t].sectionIndex).VirtualAddress
                - Section(relocated, replacements[t].sectionIndex).FileOffset,
              FirstMapping)
    /\ \A i \in 1..Len(relocated.Segments) :
         relocated.Segments[i].Type = ProgramHeaderSegment =>
           CongruentU32(relocated.Segments[i].VirtualAddress
                          - relocated.Segments[i].FileOffset, FirstMapping)

\* Two tables were relocated in a file with a ProgramHeaderSegment entry: one
\* of a loaded section and then one of a section that was not loaded
\* (VirtualAddress 0), which now has an address of the first one's mapping.
C23_Witness ==
  /\ Relocated
  /\ Len(replacements) = 2
  /\ ~NoProgramHeaderSegment(relocated.Segments)
  /\ Section(input, replacements[1].sectionIndex).VirtualAddress # 0
  /\ Section(input, replacements[2].sectionIndex).VirtualAddress = 0
  /\ replacements[2].newVirtualAddress
       = replacements[2].newFileOffset + FirstMapping

\* The value fields of the entries of the dynamic section s with the tag.
DynamicValuesOf(s, tag) ==
  {[at |-> Section(relocated, s).FileOffset + k * DynamicEntrySize + 4,
    table |-> Section(relocated, s).LinkedIndex] :
     k \in {j \in 0..((Section(relocated, s).Size \div DynamicEntrySize) - 1) :
              FieldAt(relocated.Raw,
                      Section(relocated, s).FileOffset + j * DynamicEntrySize,
                      4, relocated.Endianness) = tag}}

\* The value fields of the entries with tag 5 of the first dynamic section.
DynamicAddressFields ==
  IF \A i \in SectionIndices(relocated) : ~IsDynamicSection(relocated, i) THEN {}
  ELSE DynamicValuesOf(FirstDynamicSection(relocated), DynStringTable)

\* The value fields of the entries with tag 10 of the first dynamic section.
DynamicSizeFields ==
  IF \A i \in SectionIndices(relocated) : ~IsDynamicSection(relocated, i) THEN {}
  ELSE DynamicValuesOf(FirstDynamicSection(relocated), DynStringSize)

\* The fields updateStringReferences may write.
ReferenceFields ==
  SectionNameFields \cup SymbolNameFields \cup VersionNameFields
    \cup DynamicStringFields \cup DynamicAddressFields

\* Some byte of the field differs from what relocateStringTables left.
FieldChanged(n) ==
  SubSeq(f.Raw, n.at + 1, n.at + 4) # SubSeq(relocated.Raw, n.at + 1, n.at + 4)

EndsWithNUL(content) == Len(content) > 0 /\ content[Len(content)] = NUL

\* The second run has made its tables of replacements.
SecondRunProcessed == call.op = "again" /\ Succeeded("processReplacements")

\* The table t of the first run has a delta again in the second run, with a
\* replacement again for each original string of t that had one.
ReplacedAgain(t) ==
  /\ HasTable(t.sectionIndex)
  /\ TableFor(t.sectionIndex).oldContent = t.newContent
  /\ \A i \in 1..Len(t.replacements) :
       t.replacements[i].originalOffset < Len(t.oldContent) =>
         \E j \in 1..Len(TableFor(t.sectionIndex).replacements) :
           TableFor(t.sectionIndex).replacements[j].originalOffset
             = t.replacements[i].originalOffset

\* C25, as stated: when the program is run again on the output of a
\* successful run, with the same expression and replacement, every string
\* table that had a delta in the first run has a delta again, and the output
\* of the second run is longer than its input.
C25_EveryTableReplacedAgain ==
  /\ SecondRunProcessed =>
       \A t \in 1..Len(result.tables) : ReplacedAgain(result.tables[t])
  /\ (call.op = "again" /\ outputFile.written /\ Len(result.tables) > 0) =>
       Len(outputFile.content) > Len(input.Raw)

\* C25, amended: when the program is run again on the output of a successful
\* run, with the same expression and replacement, every string table that
\* ended with a NUL byte and had a delta in the first run has a delta again,
\* in which each of its original strings that had a replacement has one
\* again; and when there was such a table, the output of the second run is
\* longer than its input, as the output of the first run was.
C25_TerminatedTableReplacedAgain ==
  /\ SecondRunProcessed =>
       \A t \in 1..Len(result.tables) :
         EndsWithNUL(result.tables[t].oldContent) => ReplacedAgain(result.tables[t])
  /\ (/\ call.op = "again"
      /\ outputFile.written
      /\ \E t \in 1..Len(result.tables) : EndsWithNUL(result.tables[t].oldContent)) =>
       /\ Len(outputFile.content) > Len(input.Raw)
       /\ Len(input.Raw) > result.length

\* The second run has written its output, after a first run with two deltas,
\* one of them of a table that ended with a NUL byte and is loaded.
C25_Witness ==
  /\ call.op = "again"
  /\ outputFile.written
  /\ Len(result.tables) = 2
  /\ EndsWithNUL(result.tables[1].oldContent)
  /\ Len(replacements) = 2
  /\ Len(outputFile.content) > Len(input.Raw)

\* C26: replaceSingleOffset reads oldContent and the raw buffer inside
\* their bounds only: for every field offset and every table it returns
\* success or an error, and does not panic; that includes a value equal to
\* len(oldContent), and the value 0 with an empty oldContent.
C26_NoOutOfRangeAccess ==
  Returned("replaceSingleOffset") =>
    /\ ~result.panic
    /\ (~ShortField /\ FieldValue # 0 /\ ~ValueOutOfTable) =>
         (FieldValue - 1 >= 0 /\ FieldValue - 1 < Len(replacements[1].oldContent))

\* replaceSingleOffset has returned success from a field that holds
\* len(oldContent), which is not 0.
C26_Witness ==
  /\ Returned("replaceSingleOffset")
  /\ ~result.err
  /\ ~result.panic
  /\ ~ShortField
  /\ FieldValue = Len(replacements[1].oldContent)
  /\ FieldValue # 0

====
